---------------------------- MODULE Spec2Model ----------------------------
(***************************************************************************)
(* NOVA SIEGE (src/main.py): the game controller's state machine, the      *)
(* per-frame update pipeline, the player's damage rules, combo scoring,    *)
(* the defensive pulse and the enemy spawner.                              *)
(*                                                                         *)
(* Time is counted in integer milliseconds (the code holds seconds as      *)
(* floats: 1.5 s is 1500 here).  Positions are not part of the state: what *)
(* the code derives from them in a frame (which rectangles overlap, who is *)
(* inside the pulse radius, who left the playfield) is an input of the     *)
(* step that reads it, drawn with \E.  Purely cosmetic objects (particles, *)
(* star field, enemy hit flash, bullet trails) are left out.               *)
(***************************************************************************)
EXTENDS Integers, Sequences, FiniteSets

\* ------------------------------------------------------------------ bounds

\* Calls of Game._update per behaviour (the code loops until exit).
MaxTicks == 1
\* Capacity of the three entity collections (Python lists, unbounded).
MaxEnemies == 2
MaxBullets == 3
MaxPowerups == 1
\* Largest amount, besides the amounts of the game, passed to take_damage
\* when the method is checked on its own.
MaxDamage == 12
\* Longest combo chain with which _on_enemy_killed is checked on its own.
MaxChain == 16
\* Most enemies and most bullets with which the loop over the bullets of
\* _check_collisions is checked on its own.
MaxPassEnemies == 2
MaxPassBullets == 2
\* Frames for which the player's shooting is checked on its own.
MaxPlayerTicks == 3
\* Highest score, in steps of 500, with which the spawner is checked on its
\* own.
MaxScoreSteps == 12
\* Longest frame time, in ms and of either sign, the clock is taken to
\* report when the run loop's delta is checked.
MaxFrameMs == 60

\* --------------------------------------------------------------- constants

MAX_DT == 50                \* dt = min(dt, 0.05)
PLAYER_HEALTH == 100
MAX_SHIELD == 60            \* Player.max_shield
INVINCIBLE_CD == 1500       \* Player.invincible_cd = 1.5
HIT_FLASH == 150            \* Player.take_damage: hit_flash = 0.15
PULSE_MAX_CD == 8000        \* Player.pulse_max_cd = 8.0
SHOOT_RATE == 5             \* Player.shoot_rate = 5.0 shots/s
HEALTH_RESTORE == 40
RAPID_FIRE_TIME == 6000
TRIPLE_TIME == 8000
ENEMY_SPAWN_CD == 1800      \* 1.8 s
SPAWN_CD_FLOOR == 600       \* lerp(ENEMY_SPAWN_CD, 0.6, difficulty)
FULL_DIFFICULTY == 5000     \* difficulty = min(score / 5000, 1.0)
WAVE_STEP == 2000           \* wave = 1 + int(score / 2000)
COMBO_WINDOW == 2500        \* 2.5 s
MAX_MULTIPLIER == 5
COMBO_STEP == 3             \* multiplier = min(5, 1 + combo_chain // 3)
PLAYER_BULLET_DAMAGE == 20  \* Bullet.damage, is_player
ENEMY_BULLET_DAMAGE == 10   \* Bullet.damage, not is_player
CONTACT_DAMAGE == 25        \* body collision: take_damage(25)
PULSE_DAMAGE == 35          \* _trigger_pulse: take_damage(35)
PULSE_RADIUS == 120         \* px

\* GameState
GameStates == {"MENU", "PLAYING", "GAME_OVER", "PAUSED"}

\* The events _handle_events tells apart: the window's QUIT event and KEYDOWN
\* of ESC, SPACE, P, or of any other key.
Events == {"QUIT", "K_ESCAPE", "K_SPACE", "K_p", "K_other"}

\* PowerUpType
PowerUpTypes == {"health", "shield", "rapid", "triple"}

\* EnemyType
EnemyTypes == {"scout", "hunter", "tank"}

\* ENEMY_CONFIGS: hp, score and the reload time 1/fire_rate in ms
\* (1/0.6 s, 1/0.8 s, 1/1.2 s; the first and last rounded down to a whole ms).
EnemyConfig(kind) ==
    CASE kind = "scout"  -> [hp |-> 20,  score |-> 100, reload |-> 1666]
      [] kind = "hunter" -> [hp |-> 50,  score |-> 250, reload |-> 1250]
      [] kind = "tank"   -> [hp |-> 120, score |-> 500, reload |-> 833]

\* ----------------------------------------------------------------- helpers

Min(a, b) == IF a <= b THEN a ELSE b
Max(a, b) == IF a >= b THEN a ELSE b

\* ------------------------------------------------------------------- state

VARIABLES
    running,      \* FALSE once sys.exit() was called
    state,        \* Game.state
    pc,           \* where Game.run is: "loop" (top of the while), "events"
                  \* (in _handle_events), or a stage of _update
    event,        \* the event _handle_events handled last in this frame
    dt,           \* this frame's delta time, ms
    ticks,        \* calls of Game._update so far
    high_score,   \* Game.high_score
    score,        \* Game.score
    new_record,   \* Game.new_record
    combo_chain,  \* Game.combo_chain
    combo_timer,  \* Game.combo_timer, ms
    multiplier,   \* Game.multiplier
    player,       \* Game.player
    spawner,      \* Game.spawner
    enemies,      \* Game.enemies
    bullets,      \* Game.bullets
    powerups,     \* Game.powerups
    damage_calls, \* history: calls of player.take_damage in the current _update
    call          \* for a method checked on its own: its arguments, the object
                  \* before the call, and whether it has returned

session == <<score, new_record, combo_chain, combo_timer, multiplier,
             player, spawner, enemies, bullets, powerups>>

vars == <<running, state, pc, event, dt, ticks, high_score, session,
          damage_calls, call>>

\* Player.__init__
NewPlayer ==
    [hp |-> PLAYER_HEALTH, alive |-> TRUE, shield_hp |-> 0,
     shoot_cd |-> 0, ammo_type |-> "normal", rapid_fire |-> FALSE,
     triple_timer |-> 0, rapid_fire_timer |-> 0,
     invincible |-> 0, pulse_cd |-> 0, hit_flash |-> 0]

\* EnemySpawner.__init__
NewSpawner == [timer |-> 0, wave |-> 1]

\* A reset that keeps the combo of the session before
InitSession_KeepsCombo ==
    /\ player' = NewPlayer
    /\ enemies' = <<>>
    /\ bullets' = <<>>
    /\ powerups' = <<>>
    /\ spawner' = NewSpawner
    /\ score' = 0
    /\ new_record' = FALSE
    /\ UNCHANGED <<combo_chain, combo_timer, multiplier>>

\* Game._init_session
InitSession ==
    /\ player' = NewPlayer
    /\ enemies' = <<>>
    /\ bullets' = <<>>
    /\ powerups' = <<>>
    /\ spawner' = NewSpawner
    /\ score' = 0
    /\ new_record' = FALSE
    /\ combo_chain' = 0
    /\ combo_timer' = 0
    /\ multiplier' = 1

\* A start that resets the session and shows the menu again
StartGame_ToMenu ==
    /\ InitSession
    /\ state' = "MENU"

\* Game._start_game
StartGame ==
    /\ InitSession
    /\ state' = "PLAYING"


\* ------------------------------------------------- entities (pure functions)

\* Bullet.__init__
NewBullet(is_player) == [is_player |-> is_player, alive |-> TRUE]

\* Bullet.damage
BulletDamage(b) ==
    IF b.is_player THEN PLAYER_BULLET_DAMAGE ELSE ENEMY_BULLET_DAMAGE

\* PowerUp.__init__
NewPowerUp(kind) == [kind |-> kind, alive |-> TRUE]

\* Enemy.__init__; fire_cd is random.uniform(0, 1 / fire_rate), an input.
\* scored is history: the calls of _on_enemy_killed with this enemy.
NewEnemy(kind, fire_cd) ==
    [kind |-> kind, hp |-> EnemyConfig(kind).hp, alive |-> TRUE,
     fire_cd |-> fire_cd, scored |-> 0]

\* Enemy._fire: a tank fires a spread of three, the others one bullet
EnemyFire(e) ==
    IF e.kind = "tank"
    THEN <<NewBullet(FALSE), NewBullet(FALSE), NewBullet(FALSE)>>
    ELSE <<NewBullet(FALSE)>>

\* Enemy.take_damage
EnemyTakeDamage(e, amount) ==
    LET hp == e.hp - amount
    IN  [e EXCEPT !.hp = hp, !.alive = IF hp <= 0 THEN FALSE ELSE @]

\* Enemy.update: the enemy after the update; escaped says whether its new y
\* is past BASE_H + 60
EnemyUpdate(e, delta, escaped) ==
    LET cd == e.fire_cd - delta
    IN  [e EXCEPT !.alive = IF escaped THEN FALSE ELSE @,
                  !.fire_cd = IF cd <= 0 THEN EnemyConfig(e.kind).reload ELSE cd]

\* Enemy.update: the bullets the update returns
EnemyUpdateBullets(e, delta) ==
    IF e.fire_cd - delta <= 0 THEN EnemyFire(e) ELSE <<>>

\* take_damage without the early return of an invincible player
TakeDamage_NoInvincibility(p, amount) ==
    LET absorbed == IF p.shield_hp > 0 THEN Min(p.shield_hp, amount) ELSE 0
        rest     == amount - absorbed
        shielded == [p EXCEPT !.shield_hp = @ - absorbed]
    IN  IF rest > 0
        THEN [shielded EXCEPT
                !.hp = IF @ - rest <= 0 THEN 0 ELSE @ - rest,
                !.hit_flash = HIT_FLASH,
                !.invincible = INVINCIBLE_CD,
                !.alive = IF p.hp - rest <= 0 THEN FALSE ELSE @]
        ELSE shielded

\* take_damage that takes the whole amount from the health as well as from
\* the shield
TakeDamage_NoAbsorption(p, amount) ==
    IF p.invincible > 0 THEN p
    ELSE
      LET absorbed == IF p.shield_hp > 0 THEN Min(p.shield_hp, amount) ELSE 0
          shielded == [p EXCEPT !.shield_hp = @ - absorbed]
      IN  IF amount > 0
          THEN [shielded EXCEPT
                  !.hp = IF @ - amount <= 0 THEN 0 ELSE @ - amount,
                  !.hit_flash = HIT_FLASH,
                  !.invincible = INVINCIBLE_CD,
                  !.alive = IF p.hp - amount <= 0 THEN FALSE ELSE @]
          ELSE shielded

\* take_damage that starts no invincibility window
TakeDamage_NoWindow(p, amount) ==
    IF p.invincible > 0 THEN p
    ELSE
      LET absorbed == IF p.shield_hp > 0 THEN Min(p.shield_hp, amount) ELSE 0
          rest     == amount - absorbed
          shielded == [p EXCEPT !.shield_hp = @ - absorbed]
      IN  IF rest > 0
          THEN [shielded EXCEPT
                  !.hp = IF @ - rest <= 0 THEN 0 ELSE @ - rest,
                  !.hit_flash = HIT_FLASH,
                  !.alive = IF p.hp - rest <= 0 THEN FALSE ELSE @]
          ELSE shielded

\* Player.take_damage
TakeDamage(p, amount) ==
    IF p.invincible > 0 THEN p
    ELSE
      LET absorbed == IF p.shield_hp > 0 THEN Min(p.shield_hp, amount) ELSE 0
          rest     == amount - absorbed
          shielded == [p EXCEPT !.shield_hp = @ - absorbed]
      IN  IF rest > 0
          THEN [shielded EXCEPT
                  !.hp = IF @ - rest <= 0 THEN 0 ELSE @ - rest,
                  !.hit_flash = HIT_FLASH,
                  !.invincible = INVINCIBLE_CD,
                  !.alive = IF p.hp - rest <= 0 THEN FALSE ELSE @]
          ELSE shielded

\* apply_powerup that adds the health without the cap at max_hp
ApplyPowerup_NoCap(p, kind) ==
    CASE kind = "health" -> [p EXCEPT !.hp = @ + HEALTH_RESTORE]
      [] kind = "shield" -> [p EXCEPT !.shield_hp = MAX_SHIELD]
      [] kind = "rapid"  -> [p EXCEPT !.rapid_fire_timer = RAPID_FIRE_TIME]
      [] kind = "triple" -> [p EXCEPT !.triple_timer = TRIPLE_TIME]

\* apply_powerup that adds to the shield and to the timers
ApplyPowerup_Stacks(p, kind) ==
    CASE kind = "health" -> [p EXCEPT !.hp = Min(PLAYER_HEALTH, @ + HEALTH_RESTORE)]
      [] kind = "shield" -> [p EXCEPT !.shield_hp = @ + MAX_SHIELD]
      [] kind = "rapid"  -> [p EXCEPT !.rapid_fire_timer = @ + RAPID_FIRE_TIME]
      [] kind = "triple" -> [p EXCEPT !.triple_timer = @ + TRIPLE_TIME]

\* Player.apply_powerup
ApplyPowerup(p, kind) ==
    CASE kind = "health" -> [p EXCEPT !.hp = Min(PLAYER_HEALTH, @ + HEALTH_RESTORE)]
      [] kind = "shield" -> [p EXCEPT !.shield_hp = MAX_SHIELD]
      [] kind = "rapid"  -> [p EXCEPT !.rapid_fire_timer = RAPID_FIRE_TIME]
      [] kind = "triple" -> [p EXCEPT !.triple_timer = TRIPLE_TIME]

\* Player.try_shoot: whether a shot is fired (fire: SPACE or Z is held)
Shoots(p, fire) == fire /\ ~(p.shoot_cd > 0)

\* Player.try_shoot: the bullets returned
ShotBullets(p, fire) ==
    IF ~Shoots(p, fire) THEN <<>>
    ELSE IF p.ammo_type = "triple"
         THEN <<NewBullet(TRUE), NewBullet(TRUE), NewBullet(TRUE)>>
         ELSE <<NewBullet(TRUE)>>

\* Player.try_shoot: the player afterwards (shoot_cd = 1.0 / rate)
AfterShoot(p, fire) ==
    IF ~Shoots(p, fire) THEN p
    ELSE [p EXCEPT !.shoot_cd =
            1000 \div (SHOOT_RATE * (IF p.rapid_fire THEN 2 ELSE 1))]

\* A pulse that triggers whenever X is held
Pulses_IgnoresCooldown(p, pulse) == pulse

\* Player.try_pulse: whether the pulse triggers (pulse: X is held)
Pulses(p, pulse) == pulse /\ ~(p.pulse_cd > 0)

\* Player.try_pulse: the player afterwards
AfterPulse(p, pulse) ==
    IF Pulses(p, pulse) THEN [p EXCEPT !.pulse_cd = PULSE_MAX_CD] ELSE p

\* Player.update
PlayerUpdate(p, delta) ==
    LET triple == p.triple_timer - delta
        rapid  == p.rapid_fire_timer - delta
    IN  [p EXCEPT
           !.shoot_cd   = Max(0, @ - delta),
           !.invincible = Max(0, @ - delta),
           !.hit_flash  = Max(0, @ - delta),
           !.pulse_cd   = Max(0, @ - delta),
           !.triple_timer = IF @ > 0 THEN triple ELSE @,
           !.ammo_type  = IF p.triple_timer > 0
                          THEN (IF triple <= 0 THEN "normal" ELSE "triple")
                          ELSE @,
           !.rapid_fire_timer = IF @ > 0 THEN rapid ELSE @,
           !.rapid_fire = IF p.rapid_fire_timer > 0
                          THEN ~(rapid <= 0)
                          ELSE @]

\* A spawn interval that keeps falling past full difficulty
SpawnInterval_NoFloor(sc) ==
    ENEMY_SPAWN_CD - ((ENEMY_SPAWN_CD - SPAWN_CD_FLOOR) * sc) \div FULL_DIFFICULTY

\* EnemySpawner.update: lerp(ENEMY_SPAWN_CD, 0.6, min(score / 5000, 1.0)), ms
SpawnInterval(sc) ==
    ENEMY_SPAWN_CD
      - ((ENEMY_SPAWN_CD - SPAWN_CD_FLOOR) * Min(sc, FULL_DIFFICULTY))
          \div FULL_DIFFICULTY

\* EnemySpawner.update: wave = 1 + int(score / 2000)
Wave(sc) == 1 + sc \div WAVE_STEP

\* EnemySpawner.update: whether the call returns an enemy type
SpawnDue(sp, delta, sc) == sp.timer + delta >= SpawnInterval(sc)

\* A spawner that keeps its accumulated time when it spawns
SpawnerUpdate_NoReset(sp, delta, sc) ==
    [timer |-> sp.timer + delta, wave |-> Wave(sc)]

\* EnemySpawner.update: the spawner after the call
SpawnerUpdate(sp, delta, sc) ==
    [timer |-> IF SpawnDue(sp, delta, sc) THEN 0 ELSE sp.timer + delta,
     wave  |-> Wave(sc)]

\* EnemySpawner._pick_enemy_type; r is random.random() in thousandths:
\* tank_chance = difficulty * 0.20, hunter_chance = 0.15 + difficulty * 0.35
PickEnemyType(sc, r) ==
    LET d      == Min(sc, FULL_DIFFICULTY)
        tank   == (200 * d) \div FULL_DIFFICULTY
        hunter == 150 + (350 * d) \div FULL_DIFFICULTY
    IN  IF r < tank THEN "tank"
        ELSE IF r < tank + hunter THEN "hunter"
        ELSE "scout"

\* ------------------------------------------- the controller's session rules

\* What a killed enemy may drop: random.random() < POWERUP_CHANCE decides
\* whether, random.choice(list(PowerUpType)) which
Drops == {"none"} \cup PowerUpTypes

\* The session objects the update methods mutate, as one value
World ==
    [player |-> player, enemies |-> enemies, bullets |-> bullets,
     powerups |-> powerups, score |-> score, combo_chain |-> combo_chain,
     combo_timer |-> combo_timer, multiplier |-> multiplier,
     damage_calls |-> damage_calls]

\* The session objects become those of w
Install(w) ==
    /\ player' = w.player
    /\ enemies' = w.enemies
    /\ bullets' = w.bullets
    /\ powerups' = w.powerups
    /\ score' = w.score
    /\ combo_chain' = w.combo_chain
    /\ combo_timer' = w.combo_timer
    /\ multiplier' = w.multiplier
    /\ damage_calls' = w.damage_calls

\* A kill scored with the multiplier that held before it
OnEnemyKilled_OldMultiplier(w, e, drop) ==
    LET chain == w.combo_chain + 1
        mult  == Min(MAX_MULTIPLIER, 1 + chain \div COMBO_STEP)
    IN  [w EXCEPT
           !.combo_chain = chain,
           !.multiplier  = mult,
           !.combo_timer = COMBO_WINDOW,
           !.score       = @ + EnemyConfig(e.kind).score * w.multiplier,
           !.powerups    = IF drop = "none" THEN @
                           ELSE Append(@, NewPowerUp(drop))]

\* A kill scored with a multiplier that is not capped
OnEnemyKilled_NoCap(w, e, drop) ==
    LET chain == w.combo_chain + 1
        mult  == 1 + chain \div COMBO_STEP
    IN  [w EXCEPT
           !.combo_chain = chain,
           !.multiplier  = mult,
           !.combo_timer = COMBO_WINDOW,
           !.score       = @ + EnemyConfig(e.kind).score * mult,
           !.powerups    = IF drop = "none" THEN @
                           ELSE Append(@, NewPowerUp(drop))]

\* Game._on_enemy_killed; drop is the outcome of the power-up roll
OnEnemyKilled(w, e, drop) ==
    LET chain == w.combo_chain + 1
        mult  == Min(MAX_MULTIPLIER, 1 + chain \div COMBO_STEP)
    IN  [w EXCEPT
           !.combo_chain = chain,
           !.multiplier  = mult,
           !.combo_timer = COMBO_WINDOW,
           !.score       = @ + EnemyConfig(e.kind).score * mult,
           !.powerups    = IF drop = "none" THEN @
                           ELSE Append(@, NewPowerUp(drop))]

\* Game._break_combo
BreakCombo(w) ==
    [w EXCEPT !.combo_chain = 0, !.combo_timer = 0, !.multiplier = 1]

\* Game._update, the combo timer: decays each frame, and a combo whose timer
\* ran out is broken
DecayCombo(w, delta) ==
    LET w1 == [w EXCEPT !.combo_timer = Max(0, @ - delta)]
    IN  IF w1.combo_timer <= 0 /\ w1.multiplier > 1 THEN BreakCombo(w1) ELSE w1

\* A hit on the player that leaves the combo as it is
HitPlayer_KeepsCombo(w, amount) ==
    [w EXCEPT !.player = TakeDamage(@, amount), !.damage_calls = @ + 1]

\* Game._check_collisions: a hit on the player of the given amount, and the
\* combo broken when health + shield went down
HitPlayer(w, amount) ==
    LET hp_before == w.player.hp + w.player.shield_hp
        w1 == [w EXCEPT !.player = TakeDamage(@, amount),
                        !.damage_calls = @ + 1]
    IN  IF w1.player.hp + w1.player.shield_hp < hp_before
        THEN BreakCombo(w1) ELSE w1

\* The indices of the entities of a collection that are alive
AliveIdx(seq) == {i \in 1..Len(seq) : seq[i].alive}

\* An enemy that is scored at every hit it takes
DamageEnemy_ScoresEveryHit(w, j, amount, drop) ==
    LET e  == EnemyTakeDamage(w.enemies[j], amount)
        w1 == [w EXCEPT !.enemies[j] = [e EXCEPT !.scored = @ + 1]]
    IN  OnEnemyKilled(w1, e, drop)

\* An enemy takes damage, and is scored when that killed it
DamageEnemy(w, j, amount, drop) ==
    LET e  == EnemyTakeDamage(w.enemies[j], amount)
        w1 == [w EXCEPT !.enemies[j] = e]
    IN  IF ~e.alive
        THEN OnEnemyKilled([w1 EXCEPT !.enemies[j].scored = @ + 1], e, drop)
        ELSE w1

\* Game._trigger_pulse, the loop over the enemies from index j on; near is
\* the set of enemies within PULSE_RADIUS of the player
RECURSIVE PulseEnemies(_, _, _, _)
PulseEnemies(w, j, near, drop) ==
    IF j > Len(w.enemies) THEN w
    ELSE IF w.enemies[j].alive /\ j \in near
         THEN PulseEnemies(DamageEnemy(w, j, PULSE_DAMAGE, drop[j]),
                           j + 1, near, drop)
         ELSE PulseEnemies(w, j + 1, near, drop)

\* Game._trigger_pulse; nearB and nearE are the bullets and the enemies within
\* PULSE_RADIUS of the player
TriggerPulse(w, nearB, nearE, drop) ==
    LET cleared ==
          [i \in 1..Len(w.bullets) |->
             IF w.bullets[i].alive /\ ~w.bullets[i].is_player /\ i \in nearB
             THEN [w.bullets[i] EXCEPT !.alive = FALSE]
             ELSE w.bullets[i]]
    IN  PulseEnemies([w EXCEPT !.bullets = cleared], 1, nearE, drop)

\* The first enemy a bullet overlaps, alive or not (0: none)
FirstTarget_AnyOverlap(es, over) ==
    LET hit == {j \in over : j \in 1..Len(es)}
    IN  IF hit = {} THEN 0
        ELSE CHOOSE j \in hit : \A k \in hit : j <= k

\* The first alive enemy, in collection order, among those a bullet overlaps
\* (0: none)
FirstTarget(es, over) ==
    LET hit == {j \in over : j \in 1..Len(es) /\ es[j].alive}
    IN  IF hit = {} THEN 0
        ELSE CHOOSE j \in hit : \A k \in hit : j <= k

\* Game._check_collisions, the loop over the bullets from index i on:
\* over[i] is the set of enemies player bullet i overlaps, onPlayer the set of
\* bullets that overlap the player
RECURSIVE BulletPass(_, _, _, _, _)
BulletPass(w, i, over, onPlayer, drop) ==
    IF i > Len(w.bullets) THEN w
    ELSE
      LET b == w.bullets[i]
          spent == [w EXCEPT !.bullets[i].alive = FALSE]
      IN  IF ~b.alive THEN BulletPass(w, i + 1, over, onPlayer, drop)
          ELSE IF b.is_player
          THEN LET j == FirstTarget(w.enemies, over[i])
               IN  IF j = 0 THEN BulletPass(w, i + 1, over, onPlayer, drop)
                   ELSE BulletPass(
                          DamageEnemy(spent, j, BulletDamage(b), drop[j]),
                          i + 1, over, onPlayer, drop)
          ELSE IF i \in onPlayer
               THEN BulletPass(HitPlayer(spent, BulletDamage(b)),
                               i + 1, over, onPlayer, drop)
               ELSE BulletPass(w, i + 1, over, onPlayer, drop)

\* A body contact that scores the enemy it removes as a kill
RECURSIVE ContactPass_ScoresKill(_, _, _)
ContactPass_ScoresKill(w, j, touch) ==
    IF j > Len(w.enemies) THEN w
    ELSE IF w.enemies[j].alive /\ j \in touch
         THEN ContactPass_ScoresKill(
                OnEnemyKilled(
                  [HitPlayer(w, CONTACT_DAMAGE) EXCEPT !.enemies[j].alive = FALSE],
                  w.enemies[j], "none"),
                j + 1, touch)
         ELSE ContactPass_ScoresKill(w, j + 1, touch)

\* Game._check_collisions, the loop over the enemies from index j on; touch
\* is the set of enemies whose body overlaps the player
RECURSIVE ContactPass(_, _, _)
ContactPass(w, j, touch) ==
    IF j > Len(w.enemies) THEN w
    ELSE IF w.enemies[j].alive /\ j \in touch
         THEN ContactPass(
                [HitPlayer(w, CONTACT_DAMAGE) EXCEPT !.enemies[j].alive = FALSE],
                j + 1, touch)
         ELSE ContactPass(w, j + 1, touch)

\* Game._check_collisions, the loop over the power-ups from index k on; got
\* is the set of power-ups that overlap the player
RECURSIVE PickupPass(_, _, _)
PickupPass(w, k, got) ==
    IF k > Len(w.powerups) THEN w
    ELSE IF w.powerups[k].alive /\ k \in got
         THEN PickupPass(
                [w EXCEPT !.player = ApplyPowerup(@, w.powerups[k].kind),
                          !.powerups[k].alive = FALSE],
                k + 1, got)
         ELSE PickupPass(w, k + 1, got)

\* A prune that returns the survivors last to first
RECURSIVE Prune_Reversed(_)
Prune_Reversed(seq) ==
    IF seq = <<>> THEN <<>>
    ELSE IF Head(seq).alive THEN Prune_Reversed(Tail(seq)) \o <<Head(seq)>>
         ELSE Prune_Reversed(Tail(seq))

\* [x for x in seq if x.alive]
RECURSIVE Prune(_)
Prune(seq) ==
    IF seq = <<>> THEN <<>>
    ELSE IF Head(seq).alive THEN <<Head(seq)>> \o Prune(Tail(seq))
         ELSE Prune(Tail(seq))

\* Who dies in a pass, whatever the kills drop: the enemies alive in before
\* and not in after
Killed(before, after) ==
    {j \in AliveIdx(before.enemies) :
       ~after.enemies[j].alive /\ after.enemies[j].hp <= 0}

\* The power-up rolls of a pass, given those of the enemies it kills
NoDrop(w) == [j \in 1..Len(w.enemies) |-> "none"]
DropOf(w, K, d) == [j \in 1..Len(w.enemies) |-> IF j \in K THEN d[j] ELSE "none"]

\* ------------------------------------------------------------ Game.run

\* Inputs of a frame.  clock.tick(FPS) in ms: a fast frame and one after a
\* stall.
FrameMs == {20, 120}
\* random.random() of _pick_enemy_type, in thousandths
Rolls == {0, 160, 900}
\* random.uniform(0, 1 / fire_rate) of Enemy.__init__, in ms: about to fire,
\* or a full reload away
InitialFireCd(kind) == {30, EnemyConfig(kind).reload}

\* A run loop that also simulates the paused game
Simulated_AlsoPaused == {"PLAYING", "PAUSED"}

\* Game.run: the states in which _update runs after the events
Simulated == {"PLAYING"}

\* Game.run, the top of the loop: dt = min(clock.tick(FPS) / 1000, 0.05), and
\* _handle_events is entered (Game.tick, the animation clock, is left out)
Frame(ms) ==
    /\ running /\ pc = "loop"
    /\ state \in Simulated => ticks < MaxTicks
    /\ dt' = Min(ms, MAX_DT)
    /\ pc' = "events"
    /\ event' = "none"
    /\ UNCHANGED <<running, state, ticks, high_score, session, damage_calls, call>>

\* _handle_events, event.type == pygame.QUIT: pygame.quit(); sys.exit()
OnQuit ==
    /\ running' = FALSE
    /\ UNCHANGED <<state, session>>

\* _handle_events, KEYDOWN of K_ESCAPE: exits if the state is PLAYING
OnEscape ==
    /\ running' = (state # "PLAYING")
    /\ UNCHANGED <<state, session>>

\* A confirm that starts a new session from every state
OnSpace_Always ==
    /\ StartGame
    /\ UNCHANGED running

\* _handle_events, KEYDOWN of K_SPACE: _start_game from MENU and GAME_OVER
OnSpace ==
    /\ IF state \in {"MENU", "GAME_OVER"} THEN StartGame
       ELSE UNCHANGED <<state, session>>
    /\ UNCHANGED running

\* A pause key that pauses and does not resume
OnPause_NoResume ==
    /\ state' = IF state = "PLAYING" THEN "PAUSED" ELSE state
    /\ UNCHANGED <<running, session>>

\* _handle_events, KEYDOWN of K_p: PLAYING to PAUSED, else PAUSED to PLAYING
OnPause ==
    /\ state' = CASE state = "PLAYING" -> "PAUSED"
                  [] state = "PAUSED" -> "PLAYING"
                  [] OTHER -> state
    /\ UNCHANGED <<running, session>>

\* Game._handle_events, the body of the loop for one event
HandleEvent(e) ==
    /\ running /\ pc = "events"
    /\ event' = e
    /\ CASE e = "QUIT" -> OnQuit
         [] e = "K_ESCAPE" -> OnEscape
         [] e = "K_SPACE" -> OnSpace
         [] e = "K_p" -> OnPause
         [] OTHER -> UNCHANGED <<running, state, session>>
    /\ UNCHANGED <<pc, dt, ticks, high_score, damage_calls, call>>

\* Game.run, after _handle_events: _update in PLAYING; in MENU and GAME_OVER
\* only the star field and the particles move, in PAUSED nothing.  (History:
\* during _update call keeps the player's health at its start.)
Dispatch ==
    /\ running /\ pc = "events"
    /\ IF state \in Simulated
       THEN ticks' = ticks + 1 /\ pc' = "player" /\ call' = [hp |-> player.hp]
       ELSE UNCHANGED <<ticks, call>> /\ pc' = "loop"
    /\ event' = "none"
    /\ UNCHANGED <<running, state, dt, high_score, session, damage_calls>>

\* ------------------------------------------------------------ Game._update

EnemyBulletIdx(w) == {i \in AliveIdx(w.bullets) : ~w.bullets[i].is_player}
PlayerBulletIdx(w) == {i \in AliveIdx(w.bullets) : w.bullets[i].is_player}

\* _update up to player.update: movement, combo timer, try_shoot, try_pulse
\* with _trigger_pulse, player.update
UpdatePlayer ==
    /\ running /\ pc = "player"
    /\ \E fire \in BOOLEAN, pulse \in BOOLEAN :
         LET w0 == DecayCombo(World, dt)
             w1 == [w0 EXCEPT !.bullets = @ \o ShotBullets(w0.player, fire),
                              !.player = AfterShoot(@, fire)]
             w2 == [w1 EXCEPT !.player = AfterPulse(@, pulse)]
         IN  /\ Len(w2.bullets) <= MaxBullets
             /\ IF Pulses(w1.player, pulse)
                THEN \E nearB \in SUBSET EnemyBulletIdx(w2),
                        nearE \in SUBSET AliveIdx(w2.enemies) :
                       LET K == Killed(w2, TriggerPulse(w2, nearB, nearE, NoDrop(w2)))
                       IN  \E d \in [K -> Drops] :
                             LET w3 == TriggerPulse(w2, nearB, nearE, DropOf(w2, K, d))
                             IN  /\ Len(w3.powerups) <= MaxPowerups
                                 /\ Install([w3 EXCEPT !.player = PlayerUpdate(@, dt)])
                ELSE Install([w2 EXCEPT !.player = PlayerUpdate(@, dt)])
    /\ pc' = "spawn"
    /\ UNCHANGED <<running, state, event, dt, ticks, high_score, new_record, spawner,
                   call>>

\* _update, enemy spawning: spawner.update and the append of the new enemy
UpdateSpawner ==
    /\ running /\ pc = "spawn"
    /\ spawner' = SpawnerUpdate(spawner, dt, score)
    /\ IF SpawnDue(spawner, dt, score)
       THEN /\ Len(enemies) < MaxEnemies
            /\ \E r \in Rolls :
                 LET kind == PickEnemyType(score, r)
                 IN  \E cd \in InitialFireCd(kind) :
                       enemies' = Append(enemies, NewEnemy(kind, cd))
       ELSE UNCHANGED enemies
    /\ pc' = "enemies"
    /\ UNCHANGED <<running, state, event, dt, ticks, high_score, score, new_record,
                   combo_chain, combo_timer, multiplier, player, bullets, powerups,
                   damage_calls, call>>

\* The enemy _update has appended in this frame, if any: Enemy(x, -40, ...)
\* is created above the top edge, where one update later it is still out of
\* reach of the player's body and of the bottom edge.  (The spawner's timer
\* is 0 after spawner.update only in the frame of a spawn.)
Spawned == IF spawner.timer = 0 /\ enemies # <<>> THEN {Len(enemies)} ELSE {}

\* The bullets the enemies from index j on fire in this frame, in order
RECURSIVE EnemyBullets(_, _)
EnemyBullets(es, j) ==
    IF j > Len(es) THEN <<>>
    ELSE EnemyUpdateBullets(es[j], dt) \o EnemyBullets(es, j + 1)

\* _update, the loop over the enemies: every enemy of the list is updated and
\* its bullets are added; escaped are the enemies now past the bottom edge
UpdateEnemies ==
    /\ running /\ pc = "enemies"
    /\ \E escaped \in SUBSET (AliveIdx(enemies) \ Spawned) :
         enemies' = [j \in 1..Len(enemies) |->
                       EnemyUpdate(enemies[j], dt, j \in escaped)]
    /\ bullets' = bullets \o EnemyBullets(enemies, 1)
    /\ Len(bullets') <= MaxBullets
    /\ pc' = "bullets"
    /\ UNCHANGED <<running, state, event, dt, ticks, high_score, score, new_record,
                   combo_chain, combo_timer, multiplier, player, spawner, powerups,
                   damage_calls, call>>

\* An update that sets the alive flag from the bounds test alone
Moved_AliveIfInside(x, out) == [x EXCEPT !.alive = ~out]

\* Bullet.update and PowerUp.update: out says whether the new position is
\* outside the bounds
Moved(x, out) == [x EXCEPT !.alive = IF out THEN FALSE ELSE @]

\* _update, the loops over the bullets and the power-ups
UpdateBullets ==
    /\ running /\ pc = "bullets"
    /\ \E gone \in SUBSET AliveIdx(bullets) :
         bullets' = [i \in 1..Len(bullets) |-> Moved(bullets[i], i \in gone)]
    /\ \E gone \in SUBSET AliveIdx(powerups) :
         powerups' = [k \in 1..Len(powerups) |-> Moved(powerups[k], k \in gone)]
    /\ pc' = "collide"
    /\ UNCHANGED <<running, state, event, dt, ticks, high_score, score, new_record,
                   combo_chain, combo_timer, multiplier, player, spawner, enemies,
                   damage_calls, call>>

\* _check_collisions, the loop over the bullets; a bullet's rectangle may
\* overlap any enemy of the list, one the pulse of this tick killed included
CollideBullets ==
    /\ running /\ pc = "collide"
    /\ \E over \in [PlayerBulletIdx(World) -> SUBSET (1..Len(enemies))],
          onPlayer \in SUBSET EnemyBulletIdx(World) :
         LET K == Killed(World, BulletPass(World, 1, over, onPlayer, NoDrop(World)))
         IN  \E d \in [K -> Drops] :
               LET w == BulletPass(World, 1, over, onPlayer, DropOf(World, K, d))
               IN  /\ Len(w.powerups) <= MaxPowerups
                   /\ Install(w)
    /\ pc' = "contact"
    /\ UNCHANGED <<running, state, event, dt, ticks, high_score, new_record, spawner,
                   call>>

\* _check_collisions, the loop over the enemies (body contact)
CollideBodies ==
    /\ running /\ pc = "contact"
    /\ \E touch \in SUBSET (AliveIdx(enemies) \ Spawned) :
         Install(ContactPass(World, 1, touch))
    /\ pc' = "pickup"
    /\ UNCHANGED <<running, state, event, dt, ticks, high_score, new_record, spawner,
                   call>>

\* _check_collisions, the loop over the power-ups
CollectPowerups ==
    /\ running /\ pc = "pickup"
    /\ \E got \in SUBSET AliveIdx(powerups) :
         Install(PickupPass(World, 1, got))
    /\ pc' = "prune"
    /\ UNCHANGED <<running, state, event, dt, ticks, high_score, new_record, spawner,
                   call>>

\* A death that counts a score equal to the high score as a record
OnPlayerDeath_TieIsRecord ==
    /\ high_score' = IF score >= high_score THEN score ELSE high_score
    /\ new_record' = (score >= high_score)
    /\ state' = "GAME_OVER"

\* A death that keeps the score of the last session as the high score
OnPlayerDeath_LastScore ==
    /\ high_score' = score
    /\ new_record' = (score > high_score)
    /\ state' = "GAME_OVER"

\* Game._on_player_death
OnPlayerDeath ==
    /\ high_score' = IF score > high_score THEN score ELSE high_score
    /\ new_record' = (score > high_score)
    /\ state' = "GAME_OVER"

\* _update, the end: the dead are pruned, and a dead player ends the game
PruneAndDeath ==
    /\ running /\ pc = "prune"
    /\ enemies' = Prune(enemies)
    /\ bullets' = Prune(bullets)
    /\ powerups' = Prune(powerups)
    /\ IF ~player.alive THEN OnPlayerDeath
       ELSE UNCHANGED <<high_score, new_record, state>>
    /\ damage_calls' = 0
    /\ call' = "none"
    /\ pc' = "loop"
    /\ UNCHANGED <<running, event, dt, ticks, score, combo_chain, combo_timer,
                   multiplier, player, spawner>>

\* ------------------------------------------------------- the specification

\* Game.__init__
Construction ==
    /\ state = "MENU"
    /\ high_score = 0
    /\ player = NewPlayer
    /\ enemies = <<>>
    /\ bullets = <<>>
    /\ powerups = <<>>
    /\ spawner = NewSpawner
    /\ score = 0
    /\ new_record = FALSE
    /\ combo_chain = 0
    /\ combo_timer = 0
    /\ multiplier = 1

\* A session in progress at the top of the loop, as longer play than MaxTicks
\* frames leaves it: p the player, sc the score and hs the high score of an
\* earlier session, chain and timer the combo, st the spawner's timer
MidSession(p, sc, hs, chain, timer, st, es, bs, ps) ==
    /\ state = "PLAYING"
    /\ high_score = hs
    /\ score = sc
    /\ new_record = FALSE
    /\ combo_chain = chain
    /\ combo_timer = timer
    /\ multiplier = Min(MAX_MULTIPLIER, 1 + chain \div COMBO_STEP)
    /\ player = p
    /\ spawner = [timer |-> st, wave |-> Wave(sc)]
    /\ enemies = es
    /\ bullets = bs
    /\ powerups = ps

\* The player one bullet from death with an enemy bullet in flight and a
\* scout beside the ship: first and later sessions, with the score below,
\* at and above the high score (then after two kills, the second 2.46 s ago,
\* so that the combo timer is about to lapse), a spawn due in the first frame
\* of the first session
LastStand ==
    \E sc \in {0, 1000}, hs \in {0, 1000} :
      MidSession([NewPlayer EXCEPT !.hp = 10], sc, hs,
                 IF sc = 0 THEN 0 ELSE 2, IF sc = 0 THEN 0 ELSE 40,
                 IF sc = 0 /\ hs = 0 THEN SpawnInterval(sc) - 10 ELSE 0,
                 <<NewEnemy("scout", 1000)>>, <<NewBullet(FALSE)>>, <<>>)

\* The player hit 800 ms ago and still invincible, or not, behind a partly
\* used shield, or none; a combo of three running; a scout and its bullet
UnderFire ==
    \E sh \in {0, 15}, inv \in {0, 700} :
      MidSession([NewPlayer EXCEPT !.hp = 75, !.shield_hp = sh, !.invincible = inv],
                 1000, 1000, 3, 2000, 0,
                 <<NewEnemy("scout", 1000)>>, <<NewBullet(FALSE)>>, <<>>)

\* A long combo late in a first session: fourteen kills in a row, the
\* multiplier at its cap, the score past full difficulty, a scout in range
LongCombo ==
    MidSession(NewPlayer, 5000, 0, 14, 2000, 0,
               <<NewEnemy("scout", 1000)>>, <<>>, <<>>)

Init ==
    /\ running = TRUE
    /\ pc = "loop"
    /\ event = "none"
    /\ dt = 0
    /\ ticks = 0
    /\ damage_calls = 0
    /\ call = "none"
    /\ Construction \/ LastStand \/ UnderFire \/ LongCombo

Next ==
    \/ \E ms \in FrameMs : Frame(ms)
    \/ \E e \in Events : HandleEvent(e)
    \/ Dispatch
    \/ UpdatePlayer
    \/ UpdateSpawner
    \/ UpdateEnemies
    \/ UpdateBullets
    \/ CollideBullets
    \/ CollideBodies
    \/ CollectPowerups
    \/ PruneAndDeath

Spec == Init /\ [][Next]_vars


\* ------------------------------------------- Player.take_damage on its own

\* The arguments of Player.take_damage: every small amount, and the amounts
\* the game passes
DamageAmounts == (0..MaxDamage) \cup {ENEMY_BULLET_DAMAGE, CONTACT_DAMAGE}

\* A player with any health and shield, invincible or not, and one amount
DamageInit ==
    /\ running = TRUE /\ state = "PLAYING" /\ pc = "call" /\ event = "none"
    /\ dt = 0 /\ ticks = 0 /\ damage_calls = 0
    /\ high_score = 0 /\ score = 0 /\ new_record = FALSE
    /\ combo_chain = 0 /\ combo_timer = 0 /\ multiplier = 1
    /\ spawner = NewSpawner
    /\ enemies = <<>> /\ bullets = <<>> /\ powerups = <<>>
    /\ \E h \in 0..PLAYER_HEALTH, s \in 0..MAX_SHIELD, inv \in {0, 700} :
         player = [NewPlayer EXCEPT !.hp = h, !.alive = (h > 0),
                                    !.shield_hp = s, !.invincible = inv]
    /\ \E a \in DamageAmounts : call = [amount |-> a, before |-> player]

\* player.take_damage(amount)
CallTakeDamage ==
    /\ pc = "call"
    /\ player' = TakeDamage(player, call.amount)
    /\ damage_calls' = damage_calls + 1
    /\ pc' = "returned"
    /\ UNCHANGED <<running, state, event, dt, ticks, high_score, score,
                   new_record, combo_chain, combo_timer, multiplier, spawner,
                   enemies, bullets, powerups, call>>

NextDamage == CallTakeDamage

SpecDamage == DamageInit /\ [][NextDamage]_vars

\* ----------------------------------------- Game._on_enemy_killed on its own

\* A session with any combo chain, its multiplier, a running or lapsed combo
\* timer and a score, and an enemy of any kind that has just been killed
KillInit ==
    /\ running = TRUE /\ state = "PLAYING" /\ pc = "call" /\ event = "none"
    /\ dt = 0 /\ ticks = 0 /\ damage_calls = 0
    /\ high_score = 0 /\ new_record = FALSE
    /\ player = NewPlayer /\ spawner = NewSpawner
    /\ bullets = <<>> /\ powerups = <<>>
    /\ \E chain \in 0..MaxChain, timer \in {0, 1200}, sc \in {0, 1000, 5000} :
         /\ combo_chain = chain
         /\ multiplier = Min(MAX_MULTIPLIER, 1 + chain \div COMBO_STEP)
         /\ combo_timer = timer
         /\ score = sc
    /\ \E kind \in EnemyTypes :
         enemies = <<[NewEnemy(kind, EnemyConfig(kind).reload)
                        EXCEPT !.hp = 0, !.alive = FALSE]>>
    /\ call = [enemy |-> enemies[1], before |-> World]

\* self._on_enemy_killed(enemy)
CallOnEnemyKilled ==
    /\ pc = "call"
    /\ \E drop \in Drops : Install(OnEnemyKilled(World, call.enemy, drop))
    /\ pc' = "returned"
    /\ UNCHANGED <<running, state, event, dt, ticks, high_score, new_record,
                   spawner, call>>

NextKill == CallOnEnemyKilled

SpecKill == KillInit /\ [][NextKill]_vars

\* ------------------ Game._check_collisions, the loop over the bullets, alone

\* Up to MaxPassEnemies enemies, each a scout (one bullet kills it), a tank,
\* or an enemy already dead; up to MaxPassBullets alive bullets of either
\* side; for
\* every player bullet the enemies its rectangle overlaps, and the enemy
\* bullets that overlap the player
CollideInit ==
    /\ running = TRUE /\ state = "PLAYING" /\ pc = "call" /\ event = "none"
    /\ dt = 0 /\ ticks = 0 /\ damage_calls = 0
    /\ high_score = 0 /\ score = 0 /\ new_record = FALSE
    /\ combo_chain = 0 /\ combo_timer = 0 /\ multiplier = 1
    /\ player = NewPlayer /\ spawner = NewSpawner /\ powerups = <<>>
    /\ \E ne \in 1..MaxPassEnemies :
         \E es \in [1..ne -> {"scout", "tank", "dead"}] :
           enemies = [j \in 1..ne |->
                        IF es[j] = "dead"
                        THEN [NewEnemy("scout", EnemyConfig("scout").reload)
                                EXCEPT !.hp = 0, !.alive = FALSE]
                        ELSE NewEnemy(es[j], EnemyConfig(es[j]).reload)]
    /\ \E nb \in 1..MaxPassBullets :
         \E bs \in [1..nb -> BOOLEAN] :
           bullets = [i \in 1..nb |-> NewBullet(bs[i])]
    /\ \E over \in [PlayerBulletIdx(World) -> SUBSET (1..Len(enemies))],
          onPlayer \in SUBSET EnemyBulletIdx(World) :
         call = [over |-> over, onPlayer |-> onPlayer, before |-> World]

\* The first loop of self._check_collisions()
CallBulletLoop ==
    /\ pc = "call"
    /\ LET K == Killed(World, BulletPass(World, 1, call.over, call.onPlayer,
                                         NoDrop(World)))
       IN  \E d \in [K -> Drops] :
             LET w == BulletPass(World, 1, call.over, call.onPlayer,
                                 DropOf(World, K, d))
             IN  /\ Len(w.powerups) <= MaxPowerups
                 /\ Install(w)
    /\ pc' = "returned"
    /\ UNCHANGED <<running, state, event, dt, ticks, high_score, new_record,
                   spawner, call>>

NextCollide == CallBulletLoop

SpecCollide == CollideInit /\ [][NextCollide]_vars

\* ---------------------------------------- Game._trigger_pulse on its own

\* Where an entity is, as its offset <<dx, dy>> from the player: well inside
\* the pulse radius, at distance exactly 120 (72, 96, 120 is a multiple of 3,
\* 4, 5), and just beyond it
Points == {<<0, -50>>, <<72, -96>>, <<72, -97>>}

\* A pulse that does not reach the entities exactly at the radius
Near_Strict(pos) ==
    {i \in DOMAIN pos :
       pos[i][1] * pos[i][1] + pos[i][2] * pos[i][2] < PULSE_RADIUS * PULSE_RADIUS}

\* _trigger_pulse: distance(x, y, player.x, player.y) <= PULSE_RADIUS, for the
\* entities at the offsets pos (math.hypot(dx, dy) <= r as dx^2 + dy^2 <= r^2)
Near(pos) ==
    {i \in DOMAIN pos :
       pos[i][1] * pos[i][1] + pos[i][2] * pos[i][2] <= PULSE_RADIUS * PULSE_RADIUS}

\* Two kills into a combo, up to MaxPassEnemies enemies (a scout, which the
\* pulse kills, a tank, or an enemy already dead) and up to MaxPassBullets
\* alive bullets of either side, each at one of the points (the bullets at
\* one of the two about the radius)
PulseInit ==
    /\ running = TRUE /\ state = "PLAYING" /\ pc = "call" /\ event = "none"
    /\ dt = 0 /\ ticks = 0 /\ damage_calls = 0
    /\ high_score = 0 /\ score = 0 /\ new_record = FALSE
    /\ combo_chain = 2 /\ combo_timer = 1200 /\ multiplier = 1
    /\ player = [NewPlayer EXCEPT !.pulse_cd = PULSE_MAX_CD]
    /\ spawner = NewSpawner /\ powerups = <<>>
    /\ \E ne \in 1..MaxPassEnemies, nb \in 1..MaxPassBullets :
         \E es \in [1..ne -> {"scout", "tank", "dead"}],
            bs \in [1..nb -> BOOLEAN],
            epos \in [1..ne -> Points],
            bpos \in [1..nb -> Points \ {<<0, -50>>}] :
           /\ enemies = [j \in 1..ne |->
                           IF es[j] = "dead"
                           THEN [NewEnemy("scout", EnemyConfig("scout").reload)
                                   EXCEPT !.hp = 0, !.alive = FALSE]
                           ELSE NewEnemy(es[j], EnemyConfig(es[j]).reload)]
           /\ bullets = [i \in 1..nb |-> NewBullet(bs[i])]
           /\ call = [epos |-> epos, bpos |-> bpos, before |-> World]

\* self._trigger_pulse()
CallTriggerPulse ==
    /\ pc = "call"
    /\ LET nearB == Near(call.bpos)
           nearE == Near(call.epos)
           K == Killed(World, TriggerPulse(World, nearB, nearE, NoDrop(World)))
       IN  \E d \in [K -> Drops] :
             LET w == TriggerPulse(World, nearB, nearE, DropOf(World, K, d))
             IN  /\ Len(w.powerups) <= MaxPowerups
                 /\ Install(w)
    /\ pc' = "returned"
    /\ UNCHANGED <<running, state, event, dt, ticks, high_score, new_record,
                   spawner, call>>

NextPulse == CallTriggerPulse

SpecPulse == PulseInit /\ [][NextPulse]_vars

\* ------------------------------------- the player's part of _update, alone

\* _update, the calls of player.try_shoot and player.try_pulse of a frame of
\* ms milliseconds, with SPACE or Z held (fire) and X held (pulse).  call
\* keeps the keys, what the two methods returned, and the simulated time
\* since the last pulse (capped once it is past the cooldown).
PlayerTry(ms, fire, pulse) ==
    /\ pc = "try"
    /\ dt' = Min(ms, MAX_DT)
    /\ bullets' = ShotBullets(player, fire)
    /\ player' = AfterPulse(AfterShoot(player, fire), pulse)
    /\ call' = [fire |-> fire, pulse |-> pulse, before |-> player,
                pulsed |-> Pulses(AfterShoot(player, fire), pulse),
                triggered |-> (call.triggered \/ call.pulsed),
                since |-> IF Pulses(AfterShoot(player, fire), pulse)
                          THEN 0 ELSE call.since,
                gap |-> call.since]
    /\ pc' = "update"
    /\ UNCHANGED <<running, state, event, high_score, score, new_record,
                   combo_chain, combo_timer, multiplier, spawner, enemies,
                   powerups, damage_calls>>

\* _update, the call of player.update(dt)
PlayerAdvance ==
    /\ pc = "update"
    /\ player' = PlayerUpdate(player, dt)
    /\ call' = [call EXCEPT !.since = Min(@ + dt, PULSE_MAX_CD + MAX_DT)]
    /\ pc' = "try"
    /\ UNCHANGED <<running, state, event, dt, ticks, high_score, score,
                   new_record, combo_chain, combo_timer, multiplier, spawner,
                   enemies, bullets, powerups, damage_calls>>

\* --------------------------------------------- the pulse cooldown, alone

\* A new session: Player.__init__, no pulse yet
CooldownInit ==
    /\ running = TRUE /\ state = "PLAYING" /\ pc = "try" /\ event = "none"
    /\ dt = 0 /\ ticks = 0 /\ damage_calls = 0
    /\ high_score = 0 /\ score = 0 /\ new_record = FALSE
    /\ combo_chain = 0 /\ combo_timer = 0 /\ multiplier = 1
    /\ player = NewPlayer /\ spawner = NewSpawner
    /\ enemies = <<>> /\ bullets = <<>> /\ powerups = <<>>
    /\ call = [fire |-> FALSE, pulse |-> FALSE, before |-> NewPlayer,
               pulsed |-> FALSE, triggered |-> FALSE, since |-> 0, gap |-> 0]

\* Frame after frame of a session, X held or not
NextCooldown ==
    \/ \E ms \in FrameMs, pulse \in BOOLEAN :
         PlayerTry(ms, FALSE, pulse) /\ UNCHANGED ticks
    \/ PlayerAdvance

SpecCooldown == CooldownInit /\ [][NextCooldown]_vars

\* ------------------------------------------ Player.apply_powerup on its own

\* A living player with any health, a shield empty, partly used or full,
\* each power-up timer run out (player.update leaves it at or below zero),
\* running or full, and a power-up of any kind
PowerupInit ==
    /\ running = TRUE /\ state = "PLAYING" /\ pc = "call" /\ event = "none"
    /\ dt = 0 /\ ticks = 0 /\ damage_calls = 0
    /\ high_score = 0 /\ score = 0 /\ new_record = FALSE
    /\ combo_chain = 0 /\ combo_timer = 0 /\ multiplier = 1
    /\ spawner = NewSpawner
    /\ enemies = <<>> /\ bullets = <<>> /\ powerups = <<>>
    /\ \E h \in 1..PLAYER_HEALTH, s \in {0, 15, MAX_SHIELD},
          t \in {-10, 0, 3000, TRIPLE_TIME}, r \in {-10, 0, 3000, RAPID_FIRE_TIME} :
         player = [NewPlayer EXCEPT
                     !.hp = h, !.shield_hp = s,
                     !.triple_timer = t,
                     !.ammo_type = IF t > 0 THEN "triple" ELSE "normal",
                     !.rapid_fire_timer = r, !.rapid_fire = (r > 0)]
    /\ \E kind \in PowerUpTypes : call = [kind |-> kind, before |-> player]

\* player.apply_powerup(kind), and the same call once more
CallApplyPowerup ==
    /\ pc \in {"call", "once"}
    /\ player' = ApplyPowerup(player, call.kind)
    /\ pc' = IF pc = "call" THEN "once" ELSE "twice"
    /\ UNCHANGED <<running, state, event, dt, ticks, high_score, score,
                   new_record, combo_chain, combo_timer, multiplier, spawner,
                   enemies, bullets, powerups, damage_calls, call>>

NextPowerup == CallApplyPowerup

SpecPowerup == PowerupInit /\ [][NextPowerup]_vars

\* ------------------------------------------- the player's shooting, alone

\* _check_collisions, the power-up loop: the player collects a power-up of
\* the given kind between the update of one frame and try_shoot of the next
PlayerCollect(kind) ==
    /\ pc = "try"
    /\ player' = ApplyPowerup(player, kind)
    /\ player' # player
    /\ UNCHANGED <<running, state, pc, event, dt, ticks, high_score, score,
                   new_record, combo_chain, combo_timer, multiplier, spawner,
                   enemies, bullets, powerups, damage_calls, call>>

\* A new player, or one whose Triple or RapidFire power-up has 60 ms left
FireInit ==
    /\ running = TRUE /\ state = "PLAYING" /\ pc = "try" /\ event = "none"
    /\ dt = 0 /\ ticks = 0 /\ damage_calls = 0
    /\ high_score = 0 /\ score = 0 /\ new_record = FALSE
    /\ combo_chain = 0 /\ combo_timer = 0 /\ multiplier = 1
    /\ spawner = NewSpawner
    /\ enemies = <<>> /\ bullets = <<>> /\ powerups = <<>>
    /\ \E t \in {0, 60}, r \in {0, 60} :
         player = [NewPlayer EXCEPT
                     !.triple_timer = t,
                     !.ammo_type = IF t > 0 THEN "triple" ELSE "normal",
                     !.rapid_fire_timer = r, !.rapid_fire = (r > 0)]
    /\ call = [fire |-> FALSE, pulse |-> FALSE, before |-> player,
               pulsed |-> FALSE, triggered |-> FALSE, since |-> 0, gap |-> 0]

\* MaxPlayerTicks frames, SPACE held or not, power-ups collected at the end
\* of a frame
NextFire ==
    \/ \E ms \in FrameMs, fire \in BOOLEAN :
         /\ ticks < MaxPlayerTicks
         /\ PlayerTry(ms, fire, FALSE)
         /\ ticks' = ticks + 1
    \/ PlayerAdvance
    \/ \E kind \in PowerUpTypes : ticks > 0 /\ PlayerCollect(kind)

SpecFire == FireInit /\ [][NextFire]_vars

\* ------------------------------------------------ the spawner on its own

\* The scores the spawner is called with
Scores == {500 * k : k \in 0..MaxScoreSteps}

\* A new session: EnemySpawner.__init__, score 0.  call keeps the interval of
\* the last call of update and whether it returned an enemy type; enemies
\* holds the enemy _update appended in the frame.
SpawnerInit ==
    /\ running = TRUE /\ state = "PLAYING" /\ pc = "call" /\ event = "none"
    /\ dt = 0 /\ ticks = 0 /\ damage_calls = 0
    /\ high_score = 0 /\ score = 0 /\ new_record = FALSE
    /\ combo_chain = 0 /\ combo_timer = 0 /\ multiplier = 1
    /\ player = NewPlayer /\ spawner = NewSpawner
    /\ enemies = <<>> /\ bullets = <<>> /\ powerups = <<>>
    /\ call = [interval |-> SpawnInterval(0), spawned |-> FALSE]

\* _update, enemy spawning, in a frame of ms milliseconds of a session whose
\* score has grown to sc
CallSpawnerUpdate(ms, sc) ==
    /\ pc = "call"
    /\ sc >= score
    /\ score' = sc
    /\ dt' = Min(ms, MAX_DT)
    /\ spawner' = SpawnerUpdate(spawner, dt', sc)
    /\ IF SpawnDue(spawner, dt', sc)
       THEN \E r \in Rolls :
              LET kind == PickEnemyType(sc, r)
              IN  enemies' = <<NewEnemy(kind, EnemyConfig(kind).reload)>>
       ELSE enemies' = <<>>
    /\ call' = [interval |-> SpawnInterval(sc),
                spawned |-> SpawnDue(spawner, dt', sc)]
    /\ UNCHANGED <<running, state, pc, event, ticks, high_score, new_record,
                   combo_chain, combo_timer, multiplier, player, bullets,
                   powerups, damage_calls>>

NextSpawner == \E ms \in FrameMs, sc \in Scores : CallSpawnerUpdate(ms, sc)

SpecSpawner == SpawnerInit /\ [][NextSpawner]_vars

\* The run loop keeps calling _update while the state is PLAYING
SpecSpawnerLive == SpecSpawner /\ WF_vars(NextSpawner)

\* ------------------------------------- Game.run with any clock reading

\* What clock.tick(FPS) may report, in ms: frame times up to and beyond
\* MAX_DT, and malformed (negative) ones
ClockMs == (0 - MaxFrameMs)..MaxFrameMs

\* The program after construction
ClockInit ==
    /\ running = TRUE
    /\ pc = "loop"
    /\ event = "none"
    /\ dt = 0
    /\ ticks = 0
    /\ damage_calls = 0
    /\ call = "none"
    /\ Construction

\* The run loop, its frames measured by any clock reading
NextClock ==
    \/ \E ms \in ClockMs : Frame(ms)
    \/ \E e \in Events : HandleEvent(e)
    \/ Dispatch
    \/ UpdatePlayer
    \/ UpdateSpawner
    \/ UpdateEnemies
    \/ UpdateBullets
    \/ CollideBullets
    \/ CollideBodies
    \/ CollectPowerups
    \/ PruneAndDeath

SpecClock == ClockInit /\ [][NextClock]_vars

\* ------------------------------- the entities' way across the playfield

BASE_H == 720
BULLET_SPEED == 600
EBULLET_SPEED == 260
POWERUP_SPEED == 80
PLAYER_HEIGHT == 30
SPAWN_Y == 0 - 40

\* How far from the bound that removes it an entity of the opening world is, px
MaxDepth == 6

\* Positions are kept in 1/1000 px, so that speed (px/s) times delta (ms) is
\* a distance
Px(n) == n * 1000

\* ENEMY_CONFIGS: size and speed
EnemySize(kind) ==
    CASE kind = "scout" -> 16 [] kind = "hunter" -> 20 [] kind = "tank" -> 26
EnemySpeed(kind) ==
    CASE kind = "scout" -> 160 [] kind = "hunter" -> 110 [] kind = "tank" -> 55

\* A tracking enemy that keeps its height
EnemyFall_HunterHovers(kind, ms) ==
    IF kind = "hunter" THEN 0 ELSE EnemySpeed(kind) * ms

\* Enemy.update, movement: the way down in ms milliseconds.  "straight" and
\* "sine" fall by speed * dt, "track" by speed * 0.55 * dt (exact for the
\* deltas of FieldMs)
EnemyFall(kind, ms) ==
    IF kind = "hunter" THEN (EnemySpeed(kind) * 55 * ms) \div 100
    ELSE EnemySpeed(kind) * ms

\* Enemy, Bullet and PowerUp with their height on the playfield; id is
\* history, it names the object
FieldEnemy(kind, y, id) == [kind |-> kind, y |-> y, alive |-> TRUE, id |-> id]
FieldBullet(is_player, vy, y, id) ==
    [is_player |-> is_player, vy |-> vy, y |-> y, alive |-> TRUE, id |-> id]
FieldPowerUp(y, id) == [y |-> y, alive |-> TRUE, id |-> id]

\* Enemy.update: move, then the off-screen test (x is clamped to the playfield
\* and removes nothing)
EnemyMove(e, ms) ==
    LET y == e.y + EnemyFall(e.kind, ms)
    IN  [e EXCEPT !.y = y, !.alive = IF y > Px(BASE_H + 60) THEN FALSE ELSE @]

\* Bullet.update: move, then the out-of-bounds test on y (a bullet that
\* leaves by the side is one of those the tick removes early)
BulletMove(b, ms) ==
    LET y == b.y + b.vy * ms
    IN  [b EXCEPT !.y = y,
                  !.alive = IF y < Px(0 - 20) \/ y > Px(BASE_H + 20)
                            THEN FALSE ELSE @]

\* PowerUp.update
PowerUpMove(p, ms) ==
    LET y == p.y + POWERUP_SPEED * ms
    IN  [p EXCEPT !.y = y, !.alive = IF y > Px(BASE_H + 30) THEN FALSE ELSE @]

\* Player.try_shoot with the player at height y: one bullet straight up, or
\* three at -108, -90 and -72 degrees (sin(-72 deg) * 600 = -570.6, kept
\* as the slower -570)
FieldShot(y, ammo) ==
    IF ammo = "triple"
    THEN <<FieldBullet(TRUE, 0 - 570, y - Px(PLAYER_HEIGHT), "n1"),
           FieldBullet(TRUE, 0 - BULLET_SPEED, y - Px(PLAYER_HEIGHT), "n2"),
           FieldBullet(TRUE, 0 - 570, y - Px(PLAYER_HEIGHT), "n3")>>
    ELSE <<FieldBullet(TRUE, 0 - BULLET_SPEED, y - Px(PLAYER_HEIGHT), "n1")>>

\* Enemy._fire: one bullet straight down, a tank three at 75, 90 and 105
\* degrees (sin(75 deg) * 260 = 251.1, kept as the slower 251)
FieldFire(e) ==
    IF e.kind = "tank"
    THEN <<FieldBullet(FALSE, 251, e.y + Px(EnemySize(e.kind)), "n1"),
           FieldBullet(FALSE, EBULLET_SPEED, e.y + Px(EnemySize(e.kind)), "n2"),
           FieldBullet(FALSE, 251, e.y + Px(EnemySize(e.kind)), "n3")>>
    ELSE <<FieldBullet(FALSE, EBULLET_SPEED, e.y + Px(EnemySize(e.kind)), "n1")>>

\* Heights of the player when it shoots: the top of its range, and below it
PlayerYs == {Px(PLAYER_HEIGHT), Px(PLAYER_HEIGHT + MaxDepth)}

\* Positive deltas, after the clamp of Game.run
FieldMs == {20, MAX_DT}

\* What a tick may add to the world, once in a run: an enemy of the spawner,
\* a shot of the player, the fire of an enemy, the drop of a kill
FieldAdds == {"none", "spawn", "shot", "fire", "drop"}

FieldIds == {"e1", "e2", "e3", "b1", "b2", "b3", "b4", "p1", "n1", "n2", "n3"}

\* Is the object id in one of the three collections?
InWorld(id) ==
    \/ \E i \in 1..Len(enemies)  : enemies[i].id = id
    \/ \E i \in 1..Len(bullets)  : bullets[i].id = id
    \/ \E i \in 1..Len(powerups) : powerups[i].id = id

\* A session in Playing with one enemy of each type, a straight and a slanted
\* bullet of each side and a power-up on the playfield, each MaxDepth px
\* before the bound that removes it.  call keeps what the run may add, whether
\* it was added, and whether an added object has left the playfield.
FieldInit ==
    /\ running = TRUE /\ state = "PLAYING" /\ pc = "call" /\ event = "none"
    /\ dt = 0 /\ ticks = 0 /\ damage_calls = 0
    /\ high_score = 0 /\ score = 0 /\ new_record = FALSE
    /\ combo_chain = 0 /\ combo_timer = 0 /\ multiplier = 1
    /\ player = NewPlayer /\ spawner = NewSpawner
    /\ enemies = <<FieldEnemy("scout",  Px(BASE_H + 60 - MaxDepth), "e1"),
                   FieldEnemy("hunter", Px(BASE_H + 60 - MaxDepth), "e2"),
                   FieldEnemy("tank",   Px(BASE_H + 60 - MaxDepth), "e3")>>
    /\ bullets = <<FieldBullet(TRUE, 0 - BULLET_SPEED, Px(MaxDepth - 20), "b1"),
                   FieldBullet(TRUE, 0 - 570, Px(MaxDepth - 20), "b2"),
                   FieldBullet(FALSE, EBULLET_SPEED, Px(BASE_H + 20 - MaxDepth), "b3"),
                   FieldBullet(FALSE, 251, Px(BASE_H + 20 - MaxDepth), "b4")>>
    /\ powerups = <<FieldPowerUp(Px(BASE_H + 30 - MaxDepth), "p1")>>
    /\ \E a \in FieldAdds : call = [add |-> a, done |-> FALSE, left |-> FALSE]

\* The alive members of seq whose indices are in hit are not alive
HitField(seq, hit) ==
    [i \in 1..Len(seq) |-> IF i \in hit THEN [seq[i] EXCEPT !.alive = FALSE]
                                        ELSE seq[i]]

\* Has an object the run added left the playfield?
LeftField(seq) ==
    \E i \in 1..Len(seq) : seq[i].id \in {"n1", "n2", "n3"} /\ ~seq[i].alive

\* _update in a frame of ms milliseconds, for the three collections: the
\* player's shot and the spawner's enemy are appended, every enemy moves and
\* may fire, every bullet and power-up moves, the collision pass takes any of
\* the objects still alive (a kill may drop a power-up where the enemy is),
\* and the prune keeps the alive.  go: the run's addition happens in this frame.
FieldTick(ms, go) ==
    LET add == IF go /\ ~call.done THEN call.add ELSE "none"
    IN
    /\ pc = "call" /\ state = "PLAYING"
    /\ dt' = ms
    /\ \E shot \in (IF add = "shot"
                    THEN {FieldShot(y, a) : y \in PlayerYs, a \in {"normal", "triple"}}
                    ELSE {<<>>}),
          born \in (IF add = "spawn"
                    THEN {<<FieldEnemy(k, Px(SPAWN_Y), "n1")>> : k \in EnemyTypes}
                    ELSE {<<>>}) :
         LET es == [i \in 1..(Len(enemies) + Len(born)) |->
                      EnemyMove((enemies \o born)[i], ms)]
         IN  \E firer \in (IF add = "fire" THEN 1..Len(es) ELSE {0}) :
               LET fired == IF firer = 0 THEN <<>> ELSE FieldFire(es[firer])
                   flying == bullets \o shot \o fired
                   bs == [i \in 1..Len(flying) |-> BulletMove(flying[i], ms)]
                   ps == [i \in 1..Len(powerups) |-> PowerUpMove(powerups[i], ms)]
               IN  \E he \in SUBSET {i \in 1..Len(es) : es[i].alive},
                      hb \in SUBSET {i \in 1..Len(bs) : bs[i].alive},
                      hp \in SUBSET {i \in 1..Len(ps) : ps[i].alive} :
                     \E dropper \in (IF add = "drop" THEN he ELSE {0}) :
                       LET drop == IF dropper = 0 THEN <<>>
                                   ELSE <<FieldPowerUp(es[dropper].y, "n1")>>
                       IN  /\ enemies'  = Prune(HitField(es, he))
                           /\ bullets'  = Prune(HitField(bs, hb))
                           /\ powerups' = Prune(HitField(ps, hp) \o drop)
                           /\ call' = [call EXCEPT
                                  !.done = @ \/ add # "none",
                                  !.left = @ \/ LeftField(es) \/ LeftField(bs)
                                              \/ LeftField(ps)]
    /\ UNCHANGED <<running, state, pc, event, ticks, high_score, score,
                   new_record, combo_chain, combo_timer, multiplier, player,
                   spawner, damage_calls>>

NextField == \E ms \in FieldMs, go \in BOOLEAN : FieldTick(ms, go)

SpecField == FieldInit /\ [][NextField]_vars

\* The run loop keeps calling _update while the state is PLAYING
SpecFieldLive == SpecField /\ WF_vars(NextField)

\* ------------------------------------------------------------- properties

\* C1: when the player's health reaches 0 during a Playing tick the player
\* is dead, stays dead for the rest of the tick, and the tick ends in
\* GameOver; at that transition the high score becomes the maximum of the
\* previous high score and the session score, and the new-record flag is
\* true exactly when the score strictly exceeded the previous high score.
C1_DeathEndsTheGame ==
    [][ /\ (player.hp > 0 /\ player'.hp = 0)
             => /\ state = "PLAYING" /\ pc \in {"collide", "contact"}
                /\ ~player'.alive
        /\ (pc \in {"collide", "contact", "pickup"} /\ ~player.alive)
             => ~player'.alive
        /\ (pc = "prune" /\ ~player.alive)
             => (pc' = "loop" /\ state' = "GAME_OVER")
        /\ (state = "PLAYING" /\ state' = "GAME_OVER")
             => /\ high_score' = IF score > high_score THEN score ELSE high_score
                /\ new_record' = (score > high_score)
                /\ score' = score
      ]_vars

\* C1: a session that beat the high score has ended
C1_Witness ==
    /\ state = "GAME_OVER" /\ pc = "loop"
    /\ player.hp = 0 /\ ~player.alive
    /\ new_record /\ score = 1000 /\ high_score = 1000

C3_ConfirmIgnoredInSession ==
    [][ (pc = "events" /\ event' = "K_SPACE" /\ state \in {"PLAYING", "PAUSED"})
          => UNCHANGED <<state, session>>
      ]_vars

\* C3: SPACE was pressed in the middle of a session, which goes on
C3_Witness ==
    /\ state = "PLAYING" /\ pc = "events" /\ event = "K_SPACE"
    /\ score = 1000 /\ combo_chain = 3 /\ player.hp = 75
    /\ enemies # <<>> /\ bullets # <<>>

\* C4: the pause action (P) toggles between Playing and Paused: in Playing
\* it yields Paused, in Paused it yields Playing, so that two in a row return
\* to the starting state; in Menu and GameOver it changes nothing; and the
\* session is the same after it.
C4_PauseToggles ==
    [][ (pc = "events" /\ event' = "K_p")
          => /\ state = "PLAYING" => state' = "PAUSED"
             /\ state = "PAUSED" => state' = "PLAYING"
             /\ state \in {"MENU", "GAME_OVER"} => state' = state
             /\ UNCHANGED <<running, session>>
      ]_vars

\* C4: the game was paused by P with a session in progress
C4_Witness ==
    /\ state = "PAUSED" /\ pc = "events" /\ event = "K_p"
    /\ ticks = 0 /\ score = 1000 /\ enemies # <<>>

\* C5: the simulation advances only in Playing: a step taken in Paused, Menu
\* or GameOver that stays in that state leaves the score, the combo chain,
\* timer and multiplier, the player, the spawner and the enemy, bullet and
\* power-up collections unchanged.
C5_OnlyPlayingSimulates ==
    [][ (state # "PLAYING" /\ state' = state)
          => UNCHANGED <<score, combo_chain, combo_timer, multiplier, player,
                         spawner, enemies, bullets, powerups>>
      ]_vars

\* C5: a frame has ended in Paused without an update: the invincibility
\* timer of the player is where it was
C5_Witness ==
    /\ state = "PAUSED" /\ pc = "loop" /\ dt = MAX_DT /\ ticks = 0
    /\ player.invincible = 700 /\ enemies # <<>> /\ bullets # <<>>

\* C6: the quit action (ESC) terminates the process from every state.
C6_EscapeQuitsEverywhere ==
    [][ (pc = "events" /\ event' = "K_ESCAPE") => ~running' ]_vars

C8_ShieldAbsorbsFirst ==
    (pc = "returned" /\ call.before.invincible = 0)
      => LET H == call.before.hp
             S == call.before.shield_hp
             D == call.amount
         IN  IF D <= S
             THEN player.shield_hp = S - D /\ player.hp = H
             ELSE /\ player.shield_hp = 0
                  /\ player.hp = IF H - (D - S) >= 0 THEN H - (D - S) ELSE 0

\* C8: a body contact of 25 against a shield of 15 took 10 from full health
C8_Witness ==
    /\ pc = "returned" /\ call.before.invincible = 0
    /\ call.amount = CONTACT_DAMAGE /\ call.before.shield_hp = 15
    /\ call.before.hp = PLAYER_HEALTH
    /\ player.shield_hp = 0 /\ player.hp = 90

\* C9: while the invincibility timer is above 0, the take_damage calls of
\* the collision pass (enemy bullets, body contact) leave the health, the
\* shield and the alive flag unchanged, and the combo is not broken.
C9_InvincibleIgnoresDamage ==
    [][ (pc \in {"collide", "contact"} /\ player.invincible > 0)
          => /\ player'.hp = player.hp
             /\ player'.shield_hp = player.shield_hp
             /\ player'.alive = player.alive
             /\ player'.invincible = player.invincible
             /\ combo_chain' >= combo_chain
             /\ multiplier' >= multiplier
             /\ combo_timer' >= combo_timer
      ]_vars

\* C9: an invincible player was hit by a bullet and by a body in one tick,
\* and the combo is still running
C9_Witness ==
    /\ pc = "pickup" /\ damage_calls >= 2
    /\ player.invincible > 0 /\ player.invincible < 700
    /\ player.hp = 75 /\ player.shield_hp = 15
    /\ combo_chain >= 3 /\ multiplier >= 2

\* C10: every take_damage of a nonzero amount on a player who is not
\* invincible starts the full invincibility window (1.5 s) and the hit-flash,
\* also when the shield absorbs the whole amount: after a collision pass that
\* called take_damage on a player who was not invincible, both are running.
C10_EveryHitStartsInvincibility ==
    [][ (pc \in {"collide", "contact"} /\ player.invincible = 0
           /\ damage_calls' > damage_calls)
          => (player'.invincible = INVINCIBLE_CD /\ player'.hit_flash = HIT_FLASH)
      ]_vars

\* C11: in every reachable state the player's health is within 0..max_hp
\* and the shield within 0..max_shield, whatever damage and pickups came
\* before.
C11_HealthAndShieldInRange ==
    /\ player.hp \in 0..PLAYER_HEALTH
    /\ player.shield_hp \in 0..MAX_SHIELD

\* C11: the player was hit in this tick (75 to 65) and then picked up a
\* health power-up, which the cap held at the maximum
C11_Witness ==
    /\ pc = "prune" /\ damage_calls = 1
    /\ player.invincible = INVINCIBLE_CD
    /\ player.hp = PLAYER_HEALTH /\ player.shield_hp = 0

\* C12: in every reachable state every enemy's HP is within 0..max_hp of
\* its kind: no negative HP after a bullet hit or a pulse hit.
C12_EnemyHpInRange ==
    \A j \in 1..Len(enemies) :
      enemies[j].hp \in 0..EnemyConfig(enemies[j].kind).hp

\* C13: an enemy whose alive flag is false never moves or fires: in the
\* loop of _update over the enemies, one that is already dead (killed by the
\* pulse of this tick) is not advanced, and when every enemy is dead after
\* the loop (killed before, or past the bottom edge now) no bullet was added.
C13_DeadEnemiesDoNotAct ==
    [][ pc = "enemies"
          => /\ \A j \in 1..Len(enemies) :
                  ~enemies[j].alive => enemies'[j] = enemies[j]
             /\ (\A j \in 1..Len(enemies) : ~enemies'[j].alive)
                  => bullets' = bullets
      ]_vars

\* C14: once the player is dead nothing later in the tick changes the
\* health, the shield or the power-up timers (a dead player collects no
\* power-up), so whenever the game state is GameOver the health is 0.
C14_DeadPlayerKeepsZeroHealth ==
    /\ (state = "PLAYING" /\ ~player.alive)
         => (player.hp = 0 /\ pc \in {"contact", "pickup", "prune"})
    /\ state = "GAME_OVER" => player.hp = 0

\* C15: within a session the alive flag of the player and of every enemy,
\* bullet and power-up is monotonic: an entity that is dead stays in its
\* place in its collection and stays dead in every step of the frame, and the
\* prune at the end of the tick keeps exactly the entities that are alive.
C15_AliveIsMonotonic ==
    [][ LET StaysDead(seq, seq2) ==
              \A i \in 1..Len(seq) :
                ~seq[i].alive => (i <= Len(seq2) /\ ~seq2[i].alive)
            KeepsAlive(seq, seq2) ==
              /\ Len(seq2) = Cardinality(AliveIdx(seq))
              /\ \A i \in 1..Len(seq2) : seq2[i].alive
        IN  ~(pc = "events" /\ state \in {"MENU", "GAME_OVER"}
                /\ state' = "PLAYING")
              => /\ ~player.alive => ~player'.alive
                 /\ IF pc = "prune"
                    THEN /\ KeepsAlive(enemies, enemies')
                         /\ KeepsAlive(bullets, bullets')
                         /\ KeepsAlive(powerups, powerups')
                    ELSE /\ StaysDead(enemies, enemies')
                         /\ StaysDead(bullets, bullets')
                         /\ StaysDead(powerups, powerups')
      ]_vars

\* C15: the end of a tick with a dead player, a dead enemy, a dead bullet
\* and a collected power-up still in the collections
C15_Witness ==
    /\ pc = "prune" /\ ~player.alive
    /\ \E j \in 1..Len(enemies) : ~enemies[j].alive
    /\ \E i \in 1..Len(bullets) : ~bullets[i].alive
    /\ \E k \in 1..Len(powerups) : ~powerups[k].alive

\* C16: in every reachable state the multiplier is min(5, 1 + chain
\* div 3) for the current combo chain, and so within 1..5.
C16_MultiplierFollowsChain ==
    /\ multiplier = IF 1 + combo_chain \div COMBO_STEP < MAX_MULTIPLIER
                    THEN 1 + combo_chain \div COMBO_STEP
                    ELSE MAX_MULTIPLIER
    /\ multiplier \in 1..MAX_MULTIPLIER
    /\ combo_chain >= 0

\* C16: the fifteenth kill of a chain has been scored, and the multiplier is
\* held at the cap
C16_Witness ==
    /\ pc = "contact" /\ combo_chain = 15 /\ multiplier = MAX_MULTIPLIER
    /\ combo_timer = COMBO_WINDOW

\* C17: a kill-scoring event increments the combo chain by exactly 1,
\* recomputes the multiplier from the new chain, resets the combo timer to
\* its full window and adds the killed enemy's base score times the new
\* multiplier to the score.
C17_KillScoring ==
    pc = "returned"
      => /\ combo_chain = call.before.combo_chain + 1
         /\ multiplier = IF 1 + combo_chain \div 3 < 5
                         THEN 1 + combo_chain \div 3 ELSE 5
         /\ combo_timer = COMBO_WINDOW
         /\ score = call.before.score
                      + EnemyConfig(call.enemy.kind).score * multiplier

\* C17: the third kill of a chain, a hunter: the multiplier rose from 1 to 2
\* and the 250 points counted twice
C17_Witness ==
    /\ pc = "returned" /\ call.before.combo_chain = 2
    /\ call.before.multiplier = 1 /\ call.before.combo_timer = 0
    /\ call.enemy.kind = "hunter"
    /\ combo_chain = 3 /\ multiplier = 2
    /\ score = call.before.score + 500

\* C18: whenever the combo timer has run down to zero, the chain is 0 and
\* the multiplier 1 at the end of that tick, so that kills further apart than
\* the combo window never add up in one chain.
C18_LapsedComboIsReset ==
    (pc = "loop" /\ combo_timer = 0) => (combo_chain = 0 /\ multiplier = 1)

\* C19: an enemy bullet or an enemy body contact (25 damage) that lowers the
\* player's health + shield breaks the combo in that collision pass (chain 0,
\* timer 0, multiplier 1), and one that does not lower it leaves the combo as
\* it is. In the loop over the bullets the kills of the same loop still count:
\* after a break the chain holds at most the kills of that loop, without one
\* it grows by exactly those kills. A contact at health 100 without shield or
\* invincibility leaves health 75, the full invincibility window and a broken
\* combo.
C19_DamageBreaksTheCombo ==
    [][LET before == player.hp + player.shield_hp
           after  == player'.hp + player'.shield_hp
           kills  == Cardinality({j \in 1..Len(enemies) :
                                    enemies[j].alive /\ ~enemies'[j].alive})
           broken == combo_chain' = 0 /\ combo_timer' = 0 /\ multiplier' = 1
           kept   == /\ combo_chain' = combo_chain
                     /\ combo_timer' = combo_timer
                     /\ multiplier' = multiplier
       IN  /\ pc = "contact" =>
                /\ after < before => broken
                /\ after >= before => kept
                /\ ( /\ player.hp = PLAYER_HEALTH /\ player.shield_hp = 0
                     /\ player.invincible = 0
                     /\ damage_calls' > damage_calls )
                   => /\ player'.hp = PLAYER_HEALTH - CONTACT_DAMAGE
                      /\ player'.invincible = INVINCIBLE_CD
                      /\ broken
           /\ pc = "collide" =>
                /\ after < before =>
                     /\ combo_chain' <= kills
                     /\ kills = 0 => broken
                /\ after >= before =>
                     /\ combo_chain' = combo_chain + kills
                     /\ kills = 0 => kept]_vars

\* A contact at full health in a combo of 14 kills: health 75, the full
\* invincibility window, and the combo broken
C19_Witness ==
    /\ pc = "pickup" /\ score = 5000
    /\ player.hp = PLAYER_HEALTH - CONTACT_DAMAGE /\ player.shield_hp = 0
    /\ player.invincible = INVINCIBLE_CD
    /\ combo_chain = 0 /\ combo_timer = 0 /\ multiplier = 1

\* C20: within one collision pass every hit of a player bullet on an enemy,
\* with the scoring of its kill, is resolved before any hit of an enemy bullet
\* on the player, whatever the order of the bullets in the collection: a kill
\* made in the pass in which the player loses health or shield is scored with
\* the multiplier of the combo as it stood before the break.
C20_KillsScoredBeforeTheBreak ==
    [][LET before == player.hp + player.shield_hp
           after  == player'.hp + player'.shield_hp
           killed == {j \in 1..Len(enemies) :
                        enemies[j].alive /\ ~enemies'[j].alive}
           mult   == Min(MAX_MULTIPLIER, 1 + (combo_chain + 1) \div COMBO_STEP)
       IN  (pc = "collide" /\ after < before /\ Cardinality(killed) = 1)
           => \A j \in killed :
                score' = score + EnemyConfig(enemies[j].kind).score * mult]_vars

\* C21: in a collision pass a player bullet damages at most one enemy, the
\* first alive enemy it overlaps in collection order, and is then
\* deactivated; an enemy that is already dead is never tested.  After the
\* loop over the bullets: a dead enemy is as it was and no enemy was hit
\* after its death; the damage dealt is one bullet's damage per consumed
\* player bullet; a consumed bullet overlapped an enemy alive before the
\* pass, a bullet left alive overlaps no enemy still alive; the first player
\* bullet of the collection hit the first alive enemy it overlapped; and a
\* second bullet that overlaps only an enemy killed earlier in the pass is
\* left alive.
C21_OneEnemyPerBullet ==
    pc = "returned" =>
      LET b0   == call.before
          over == call.over
          shots == PlayerBulletIdx(b0)
          spent == {i \in shots : ~bullets[i].alive}
          dealt[j \in 0..Len(enemies)] ==
              IF j = 0 THEN 0
              ELSE dealt[j - 1] + (b0.enemies[j].hp - enemies[j].hp)
      IN  /\ \A j \in 1..Len(enemies) :
               /\ ~b0.enemies[j].alive => enemies[j] = b0.enemies[j]
               /\ enemies[j].hp > 0 - PLAYER_BULLET_DAMAGE
               /\ enemies[j].alive <=> enemies[j].hp > 0
          /\ dealt[Len(enemies)] = PLAYER_BULLET_DAMAGE * Cardinality(spent)
          /\ \A i \in shots :
               /\ ~bullets[i].alive => \E j \in over[i] : b0.enemies[j].alive
               /\ bullets[i].alive => \A j \in over[i] : ~enemies[j].alive
          /\ \A i \in shots :
               (\A h \in shots : i <= h) =>
                 \A j \in over[i] :
                   ( /\ b0.enemies[j].alive
                     /\ \A h \in over[i] : b0.enemies[h].alive => j <= h )
                   => /\ ~bullets[i].alive
                      /\ enemies[j].hp <= b0.enemies[j].hp
                                            - PLAYER_BULLET_DAMAGE
          /\ \A i \in shots, k \in shots, j \in 1..Len(enemies) :
               ( /\ i < k /\ over[i] = {j} /\ over[k] = {j}
                 /\ b0.enemies[j].hp <= PLAYER_BULLET_DAMAGE )
               => bullets[k].alive

\* Two player bullets overlap the same scout and nothing else: the first
\* killed it, the second is still alive
C21_Witness ==
    /\ pc = "returned"
    /\ \E i \in PlayerBulletIdx(call.before), k \in PlayerBulletIdx(call.before),
          j \in AliveIdx(call.before.enemies) :
         /\ i < k /\ call.over[i] = {j} /\ call.over[k] = {j}
         /\ ~bullets[i].alive /\ bullets[k].alive
         /\ ~enemies[j].alive /\ enemies[j].hp = 0

\* C22: the score and the combo chain increase only through the scoring of
\* a kill, of an enemy whose HP a player bullet or the pulse brought to zero
\* or below; an enemy removed by body contact with the player or by escaping
\* past the bottom edge changes neither the score nor the chain, and keeps
\* its HP.
C22_OnlyKillsScore ==
    [][LET killed == {j \in 1..Len(enemies) :
                        /\ enemies[j].alive /\ enemies[j].hp > 0
                        /\ ~enemies'[j].alive /\ enemies'[j].hp <= 0}
       IN  /\ (score' > score \/ combo_chain' > combo_chain)
                => /\ pc \in {"player", "collide"}
                   /\ killed # {}
                   /\ \A j \in killed :
                        IF pc = "player"
                        THEN enemies'[j].hp = enemies[j].hp - PULSE_DAMAGE
                        ELSE (enemies[j].hp - enemies'[j].hp)
                               % PLAYER_BULLET_DAMAGE = 0
           /\ (pc \in {"player", "collide"} /\ killed # {}) => score' > score
           /\ pc \in {"enemies", "contact"}
                => /\ score' = score
                   /\ combo_chain' <= combo_chain
                   /\ \A j \in 1..Len(enemies) :
                        enemies'[j].hp = enemies[j].hp]_vars

\* A body contact has removed an enemy with its HP left (the enemy bullet in
\* flight did not hit, take_damage was called once), and the score is the
\* one the session had
C22_Witness ==
    /\ pc = "pickup" /\ damage_calls = 1
    /\ score = 1000 /\ high_score = 1000
    /\ \A i \in 1..Len(bullets) : ~bullets[i].is_player => bullets[i].alive
    /\ \E j \in 1..Len(enemies) : ~enemies[j].alive /\ enemies[j].hp > 0

\* C23: on a pulse trigger exactly the alive enemy bullets at distance <= 120
\* from the player are deactivated and exactly the alive enemies at distance
\* <= 120 take 35 damage, the boundary included; player bullets and
\* everything farther away are untouched, and an enemy the pulse kills is
\* scored as a bullet kill is: chain + 1, multiplier min(5, 1 + chain // 3),
\* the combo timer at its window, score + base * multiplier.
C23_PulseRadius ==
    pc = "returned" =>
      LET b0 == call.before
          r2 == PULSE_RADIUS * PULSE_RADIUS
          d2(p) == p[1] * p[1] + p[2] * p[2]
          hit == {j \in 1..Len(enemies) :
                    b0.enemies[j].alive /\ d2(call.epos[j]) <= r2}
          dies(j) == j \in hit /\ b0.enemies[j].hp <= PULSE_DAMAGE
          chain[j \in 0..Len(enemies)] ==
              IF j = 0 THEN b0.combo_chain
              ELSE chain[j - 1] + (IF dies(j) THEN 1 ELSE 0)
          total[j \in 0..Len(enemies)] ==
              IF j = 0 THEN b0.score
              ELSE total[j - 1] +
                   (IF dies(j)
                    THEN EnemyConfig(b0.enemies[j].kind).score
                           * Min(MAX_MULTIPLIER, 1 + chain[j] \div COMBO_STEP)
                    ELSE 0)
          n == Len(enemies)
      IN  /\ \A i \in 1..Len(bullets) :
               bullets[i] =
                 IF ~b0.bullets[i].is_player /\ d2(call.bpos[i]) <= r2
                 THEN [b0.bullets[i] EXCEPT !.alive = FALSE]
                 ELSE b0.bullets[i]
          /\ \A j \in 1..n :
               /\ j \notin hit => enemies[j] = b0.enemies[j]
               /\ j \in hit => /\ enemies[j].hp = b0.enemies[j].hp - PULSE_DAMAGE
                               /\ enemies[j].alive = ~dies(j)
          /\ combo_chain = chain[n]
          /\ score = total[n]
          /\ IF chain[n] > b0.combo_chain
             THEN /\ combo_timer = COMBO_WINDOW
                  /\ multiplier = Min(MAX_MULTIPLIER, 1 + chain[n] \div COMBO_STEP)
             ELSE combo_timer = b0.combo_timer /\ multiplier = b0.multiplier
          /\ player = b0.player

\* A pulse with a scout and an enemy bullet exactly at the radius and a
\* scout and an enemy bullet just beyond it: the first two are gone, the
\* kill was the third of the combo; the other two are untouched
C23_Witness ==
    /\ pc = "returned" /\ Len(enemies) = 2 /\ Len(bullets) = 2
    /\ call.epos = <<(<<72, -96>>), (<<72, -97>>)>>
    /\ call.bpos = <<(<<72, -96>>), (<<72, -97>>)>>
    /\ ~enemies[1].alive /\ enemies[1].hp = 20 - PULSE_DAMAGE
    /\ enemies[2].alive /\ enemies[2].hp = 20
    /\ ~bullets[1].is_player /\ ~bullets[1].alive
    /\ ~bullets[2].is_player /\ bullets[2].alive
    /\ combo_chain = 3 /\ multiplier = 2 /\ score = 200

\* C24: the pulse triggers only in a tick in which the pulse key is held and
\* the pulse cooldown is zero, and the trigger sets the cooldown to 8 s; a
\* request during the cooldown has no effect; between two triggers of a
\* session at least 8 s of simulated time elapse (the deltas of the updates
\* run since the trigger, that of the triggering tick included).
C24_PulseCooldown ==
    [][pc = "try" =>
         /\ call'.pulsed <=> (call'.pulse /\ player.pulse_cd = 0)
         /\ player'.pulse_cd = IF call'.pulsed THEN PULSE_MAX_CD
                               ELSE player.pulse_cd
         /\ (call'.pulsed /\ call'.triggered) => call.since >= PULSE_MAX_CD
      ]_vars

\* The second pulse of a session, exactly 8 s after the first
C24_Witness ==
    /\ pc = "update" /\ call.pulsed /\ call.triggered
    /\ call.gap = PULSE_MAX_CD /\ player.pulse_cd = PULSE_MAX_CD

\* C25: a power-up overwrites, it does not stack.  Health gives
\* min(max_hp, health + 40); Shield gives max_shield whatever the shield was;
\* RapidFire and Triple set their timer to 6 s and 8 s whatever it was; so
\* the same power-up applied twice in a row leaves the shield or the timer
\* that one application leaves.  Nothing else of the player changes.
C25_PowerupOverwrites ==
    pc \in {"once", "twice"} =>
      LET p0 == call.before
          once == Min(PLAYER_HEALTH, p0.hp + HEALTH_RESTORE)
      IN  CASE call.kind = "health" ->
                 player = [p0 EXCEPT !.hp =
                             IF pc = "once" THEN once
                             ELSE Min(PLAYER_HEALTH, once + HEALTH_RESTORE)]
            [] call.kind = "shield" ->
                 player = [p0 EXCEPT !.shield_hp = MAX_SHIELD]
            [] call.kind = "rapid" ->
                 player = [p0 EXCEPT !.rapid_fire_timer = RAPID_FIRE_TIME]
            [] call.kind = "triple" ->
                 player = [p0 EXCEPT !.triple_timer = TRIPLE_TIME]

\* A second Shield power-up collected by a player whose shield was empty
\* before the first: the shield is 60
C25_Witness ==
    /\ pc = "twice" /\ call.kind = "shield"
    /\ call.before.shield_hp = 0 /\ player.shield_hp = MAX_SHIELD

\* C26: at every firing decision the player's time-limited modes agree with
\* their timers: a shot is a triple shot (three bullets) exactly when the
\* triple timer is above 0, it uses the doubled rate (cooldown 100 ms, not
\* 200 ms) exactly when the rapid-fire timer is above 0, and after a timer
\* has run out the mode is the default again.
C26_ModesFollowTimers ==
    [][(pc = "try" /\ pc' = "update" /\ bullets' # <<>>)
         => /\ Len(bullets') = IF player.triple_timer > 0 THEN 3 ELSE 1
            /\ player'.shoot_cd =
                 IF player.rapid_fire_timer > 0
                 THEN 1000 \div (2 * SHOOT_RATE) ELSE 1000 \div SHOOT_RATE
      ]_vars

C28_SpawnsWhenDue ==
    /\ [][/\ call'.spawned <=> spawner.timer + dt' >= call'.interval
          /\ spawner'.timer = IF call'.spawned THEN 0 ELSE spawner.timer + dt'
          /\ Len(enemies') = IF call'.spawned THEN 1 ELSE 0
         ]_vars
    /\ []<>(call.spawned)

\* A spawn at full difficulty: one enemy added, the accumulated time at zero
C28_Witness ==
    /\ call.spawned /\ spawner.timer = 0 /\ Len(enemies) = 1
    /\ score = FULL_DIFFICULTY /\ call.interval = SPAWN_CD_FLOOR

\* C29: every delta handed to the simulation tick lies in [0, 50 ms]: a
\* frame time above 50 ms is clamped to 50 ms, and a negative or otherwise
\* out-of-range delta is clamped or rejected at the tick boundary and never
\* reaches the entity updates.
C29_DeltaInRange ==
    pc \in {"player", "spawn", "enemies", "bullets", "collide", "contact",
            "pickup", "prune"}
      => dt \in 0..MAX_DT

\* C30: the high score persists across sessions and never decreases: the
\* start of a new session leaves it unchanged, it changes only at a
\* transition from Playing to GameOver, and after every such transition it
\* is at least the score of the session that has just ended.
C30_HighScorePersists ==
    [][/\ high_score' >= high_score
       /\ high_score' # high_score
            => (state = "PLAYING" /\ state' = "GAME_OVER")
       /\ (state = "PLAYING" /\ state' = "GAME_OVER")
            => (high_score' >= score /\ score' = score)
       /\ (state \in {"MENU", "GAME_OVER"} /\ state' = "PLAYING")
            => (high_score' = high_score /\ score' = 0)
      ]_vars

\* A new session started from GameOver: the score is 0 again, the high score
\* is the 1000 of the session before
C30_Witness ==
    /\ state = "PLAYING" /\ pc = "events" /\ event = "K_SPACE"
    /\ score = 0 /\ high_score = 1000
    /\ player = NewPlayer /\ enemies = <<>>

\* C31: at the end of every Playing tick the enemy, bullet and power-up
\* collections hold only entities whose alive flag is true, and the
\* survivors keep the relative order they had before the prune: the k-th
\* entity after the prune is the k-th alive entity before it.
C31_PruneKeepsOrder ==
    [][pc = "prune" =>
         /\ pc' = "loop"
         /\ \A pair \in {<<enemies, enemies'>>, <<bullets, bullets'>>,
                         <<powerups, powerups'>>} :
              LET old   == pair[1]
                  new   == pair[2]
                  alive == {i \in 1..Len(old) : old[i].alive}
                  nth(k) == CHOOSE i \in alive :
                              Cardinality({h \in alive : h <= i}) = k
              IN  /\ Len(new) = Cardinality(alive)
                  /\ \A k \in 1..Len(new) : new[k].alive /\ new[k] = old[nth(k)]
      ]_vars

\* The end of a tick in which the one enemy of the session was removed
\* without a kill: no enemy is left, and the enemy bullet in flight and the
\* player's new bullet are still there, in that order
C31_Witness ==
    /\ pc = "loop" /\ state = "PLAYING" /\ ticks = 1
    /\ score = 1000 /\ high_score = 1000
    /\ enemies = <<>>
    /\ bullets = <<NewBullet(FALSE), NewBullet(TRUE)>>

\* C32: each enemy is scored as a kill at most once in its lifetime, and
\* only in the tick in which bullet or pulse damage turns its alive flag
\* false; no combination of a pulse and several bullets in one tick scores an
\* enemy twice.
C32_ScoredAtMostOnce ==
    [][\A j \in 1..Len(enemies) :
         /\ enemies[j].scored <= 1
         /\ enemies[j].scored = 1 => ~enemies[j].alive
         /\ pc \in {"player", "spawn", "enemies", "bullets", "collide",
                    "contact", "pickup"}
              => /\ enemies'[j].scored <= 1
                 /\ enemies'[j].scored >= enemies[j].scored
                 /\ enemies'[j].scored > enemies[j].scored
                      => /\ pc \in {"player", "collide"}
                         /\ enemies[j].alive /\ enemies[j].hp > 0
                         /\ ~enemies'[j].alive /\ enemies'[j].hp <= 0
                         /\ score' > score
      ]_vars

\* A tick with a pulse and a shot: the scout the pulse killed has been
\* scored once when the loop over the bullets is over
C32_Witness ==
    /\ pc = "contact" /\ enemies # <<>>
    /\ enemies[1].kind = "scout" /\ enemies[1].hp = 20 - PULSE_DAMAGE
    /\ ~enemies[1].alive /\ enemies[1].scored = 1
    /\ \E i \in 1..Len(bullets) : bullets[i].is_player

\* C33: within one tick the player's health is lowered by at most one damage
\* event: the first hit that reaches the health starts the invincibility
\* window, which suppresses every later bullet and contact hit of that tick;
\* so the health falls by at most 25 in a tick, however many bullets and
\* enemies overlap the player.
C33_OneHealthLossPerTick ==
    [][/\ player'.hp < player.hp =>
            /\ pc \in {"collide", "contact"}
            /\ player.invincible = 0
            /\ player'.invincible = INVINCIBLE_CD
            /\ player.hp - player'.hp <=
                 IF pc = "collide" THEN ENEMY_BULLET_DAMAGE ELSE CONTACT_DAMAGE
       /\ (pc \in {"collide", "contact"} /\ player.invincible > 0) =>
            (player'.hp = player.hp /\ player'.shield_hp = player.shield_hp)
       /\ pc' \in {"spawn", "enemies", "bullets", "collide", "contact",
                   "pickup", "prune"} =>
            player'.hp >= call'.hp - CONTACT_DAMAGE
      ]_vars

\* The end of a tick in which an enemy bullet and then an enemy's body hit
\* the player, who began it with 75 health: only the bullet lowered it
C33_Witness ==
    /\ pc = "prune" /\ damage_calls = 2
    /\ call.hp = 75 /\ player.hp = 75 - ENEMY_BULLET_DAMAGE
    /\ player.shield_hp = 0 /\ player.invincible = INVINCIBLE_CD

\* C34: while the game keeps ticking in Playing with positive deltas, every
\* enemy, bullet and power-up that is in the world is eventually removed from
\* its collection, by leaving the playfield bounds or by a collision or
\* pickup; none stays in the world forever.
C34_EventuallyRemoved ==
    \A id \in FieldIds : []<>(~InWorld(id))

\* An enemy the spawner added at the top has crossed the whole playfield and
\* was removed by the off-screen test; the world is empty
C34_Witness ==
    /\ call.add = "spawn" /\ call.done /\ call.left
    /\ enemies = <<>> /\ bullets = <<>> /\ powerups = <<>>

=============================================================================
